---- MODULE Spec2Model ----
(***************************************************************************)
(* Model of the PulseNote feed-ranking engine (class PulseNoteAlgorithm of *)
(* src/pack-all/Pack-VP/Pack-VP/Pack-VP/popup.js): the per-user impression *)
(* and engagement lists, the per-user feed cache with its lazily checked   *)
(* TTL, the fire-and-forget persistence calls, and the scoring, feed,      *)
(* trending and recommendation operations.                                 *)
(*                                                                         *)
(* Time is Date.now() in milliseconds, counted from an arbitrary origin.   *)
(* A post's createdAt, an ISO 8601 string in the code, is the pair of its  *)
(* date (day number from the origin) and its time of day in milliseconds,  *)
(* so that posts may be years old.                                         *)
(* Scores are JavaScript doubles in the code; here they are fixed-point    *)
(* integers (unit 1/ScoreScale for the component scores, 1/(10*ScoreScale) *)
(* for the composite), with Math.exp replaced by a fixed-point decay.      *)
(* Strings that the code inspects by prefix (post ids, author ids) are     *)
(* sequences of one-character strings.                                     *)
(***************************************************************************)
EXTENDS Integers, Sequences, FiniteSets, TLC

\* ------------------------------------------------------------------ bounds
\* A run holds at most MaxEvents events that add to the state: advances of
\* the clock (by TickMs each), recorded impressions and engagements, and
\* edits by the caller of a list it got from generateFeed.
MaxEvents == 3

\* ------------------------------------------------------- program constants
\* this.config (popup.js:199-207)
maxFeedSize == 50
impressionCacheTTL == 3600000
\* milliseconds per hour, the divisor of every age computation (popup.js:414)
MsPerHour == 3600000

\* ------------------------------------------------------- model parameters
ScoreScale == 100 * 100
TickMs == impressionCacheTTL \div 2
StartTime == 48 * MsPerHour
Users == {"u1", "u2"}

Max(a, b) == IF a >= b THEN a ELSE b
Min(a, b) == IF a <= b THEN a ELSE b

\* ------------------------------------------------------------ JavaScript Map
EmptyMap == [x \in {} |-> 0]
MapHas(m, k) == k \in DOMAIN m
MapGetOr(m, k, d) == IF k \in DOMAIN m THEN m[k] ELSE d
MapSet(m, k, v) == [x \in (DOMAIN m) \cup {k} |-> IF x = k THEN v ELSE m[x]]
MapDelete(m, k) == [x \in (DOMAIN m) \ {k} |-> m[x]]

\* Object spread {...base, ...over}: the later object's fields win.
Spread(base, over) ==
    [f \in (DOMAIN base) \cup (DOMAIN over) |->
        IF f \in DOMAIN over THEN over[f] ELSE base[f]]

\* JavaScript truthiness of obj[field] for an optional boolean field.
Truthy(obj, field) == field \in DOMAIN obj /\ obj[field] = TRUE

\* obj[field] || 0 for an optional numeric field.
NumberOr0(obj, field) == IF field \in DOMAIN obj THEN obj[field] ELSE 0

\* String.prototype.startsWith on character sequences.
StartsWith(s, prefix) ==
    /\ Len(prefix) <= Len(s)
    /\ \A i \in 1..Len(prefix) : s[i] = prefix[i]

\* Array.prototype.slice(0, n); Array.prototype.filter is SelectSeq.
Slice0(s, n) == SubSeq(s, 1, Min(Len(s), Max(n, 0)))

\* Array.prototype.sort((a, b) => b[f] - a[f]): a stable sort into
\* non-increasing order of field f (equal keys keep their input order).
RECURSIVE InsertDesc(_, _, _)
InsertDesc(sorted, x, f) ==
    IF sorted = <<>> THEN <<x>>
    ELSE IF Head(sorted)[f] >= x[f]
         THEN <<Head(sorted)>> \o InsertDesc(Tail(sorted), x, f)
         ELSE <<x>> \o sorted

RECURSIVE SortDescFrom(_, _, _, _)
SortDescFrom(s, i, acc, f) ==
    IF i > Len(s) THEN acc ELSE SortDescFrom(s, i + 1, InsertDesc(acc, s[i], f), f)

SortDesc(s, f) == SortDescFrom(s, 1, <<>>, f)

\* ------------------------------------------------------------------- posts
Digit == <<"0", "1", "2", "3", "4", "5", "6", "7", "8", "9">>
Digits(i) ==
    IF i < 10 THEN <<Digit[i + 1]>>
    ELSE <<Digit[(i \div 10) + 1], Digit[(i % 10) + 1]>>

Author == <<"a", "b", "c">>

\* new Date(ms).toISOString(): the date and the time of day.
MsPerDay == 24 * MsPerHour
DateOf(ms) == [day |-> ms \div MsPerDay, ms |-> ms % MsPerDay]

\* The i-th post of the post store: three authors ("a", "b", "c"), whose id
\* is a prefix of the ids of their posts, created 0, 1, 24 or 48 hours
\* before StartTime, with varying engagement and impression counters.
Post(i) ==
    [ id |-> <<Author[(i % 3) + 1]>> \o <<"_">> \o Digits(i),
      anonymousId |-> <<Author[(i % 3) + 1]>>,
      displayName |-> Author[(i % 3) + 1],
      createdAt |-> DateOf(StartTime - ((<<0, 1, 24, 48>>)[(i % 4) + 1]) * MsPerHour),
      engagementCount |->
          [likes |-> (i * 7) % 5, reposts |-> i % 2, replies |-> (i \div 2) % 3],
      impressionCount |-> (i % 3) * 10 ]

PostRange(lo, hi) == [i \in 1..(hi - lo + 1) |-> Post(lo + i - 1)]

\* ----------------------------------------------------------------- scoring
\* t - new Date(createdAt).getTime(), as whole hours (negative for a date
\* after t) and the milliseconds of the hour begun.
AgeAt(createdAt, t) ==
    [hours |-> ((t - createdAt.ms) \div MsPerHour) - (24 * createdAt.day),
     rest |-> (t - createdAt.ms) % MsPerHour]

\* Math.exp(-age / tauHours) in fixed point, for an age of whole hours:
\* one factor e^(-1/tau) per hour (0.9592 for tau = 24, 0.8465 for tau = 6),
\* each product rounded down.
RECURSIVE ExpNegHours(_, _)
ExpNegHours(h, tau) ==
    IF h <= 0 THEN ScoreScale
    ELSE (ExpNegHours(h - 1, tau) * (IF tau = 24 THEN 9592 ELSE 8465)) \div ScoreScale

\* The fixed-point value is 0 from about 10 tau hours on.
FixedPointHours(tau) == 12 * tau

\* Math.exp of a double underflows to 0 when its argument is below
\* -1075 ln 2 = -745.13..., and is positive and below 1 for every other
\* negative argument a millisecond clock can produce.
Underflows(age, tau) == age.hours * 100 > 74513 * tau

\* Math.exp(-age / tauHours) for an age that is not negative: the
\* fixed-point power for the whole hours and a linear step inside the hour
\* begun; never below the smallest positive value while the double is
\* positive, and 0 where the double is 0.  Like the double it is 1 at age 0
\* only and never increases with age; it decreases strictly, as the double
\* does, for ages up to about 9 tau hours.
ExpNegPast(age, tau) ==
    LET whole == IF age.hours >= FixedPointHours(tau) THEN 0
                 ELSE ExpNegHours(age.hours, tau)
        restSec == age.rest \div 1000
    IN  IF Underflows(age, tau) THEN 0
        ELSE Max(1, whole - ((whole * restSec) \div (tau * 3600)))

\* Math.exp(-age / tauHours): for a negative age (a date after t) the
\* reciprocal of the value for the age turned around, which is above 1.
ExpNeg(age, tau) ==
    IF age.hours >= 0 THEN ExpNegPast(age, tau)
    ELSE LET ahead == IF age.rest = 0
                      THEN [hours |-> 0 - age.hours, rest |-> 0]
                      ELSE [hours |-> (0 - age.hours) - 1,
                            rest |-> MsPerHour - age.rest]
         IN  (ScoreScale * ScoreScale) \div ExpNegPast(ahead, tau)

\* calculateEngagementScore: (likes + 2 reposts + 3 replies) / max(1, total)
calculateEngagementScore(post) ==
    LET likes == post.engagementCount.likes
        reposts == post.engagementCount.reposts
        replies == post.engagementCount.replies
    IN  (((likes * 1) + (reposts * 2) + (replies * 3)) * ScoreScale)
            \div Max(1, likes + reposts + replies)

\* calculateRecencyScore: exp(-ageInHours / 24)
calculateRecencyScoreIgnoresAge(post, t) == ExpNeg(AgeAt(DateOf(t), t), 24)
calculateRecencyScore(post, t) == ExpNeg(AgeAt(post.createdAt, t), 24)

\* calculateDiversityScore: 1 / (1 + 0.1 k), k the user's engagements whose
\* postId starts with the post's anonymousId.
calculateDiversityScore(post, userId, engagements) ==
    LET userPosts == MapGetOr(engagements, userId, <<>>)
        sameAuthorEngagements ==
            SelectSeq(userPosts, LAMBDA e : StartsWith(e.postId, post.anonymousId))
    IN  (10 * ScoreScale) \div (10 + Len(sameAuthorEngagements))

\* calculateImpressionScore: 0.95 ^ (impressions of this post by the user),
\* 1 when there is none.
RECURSIVE DecayPow(_)
DecayPow(n) == IF n <= 0 THEN ScoreScale ELSE (DecayPow(n - 1) * 95) \div 100

calculateImpressionScore(post, userId, impressions) ==
    LET userImps == MapGetOr(impressions, userId, <<>>)
        postImpressions == SelectSeq(userImps, LAMBDA i : i.postId = post.id)
    IN  IF Len(postImpressions) > 0 THEN DecayPow(Len(postImpressions)) ELSE ScoreScale

\* Mutant of calculatePostScore: the impression term has weight 0.1.
calculatePostScoreWeighsImpressions(post, userId, userPreferences, engagements, impressions, t) ==
    LET finalScore == (calculateEngagementScore(post) * 6)
                        + (calculateRecencyScore(post, t) * 3)
                        + (calculateDiversityScore(post, userId, engagements) * 1)
                        + (calculateImpressionScore(post, userId, impressions) * 1)
    IN  IF Truthy(userPreferences, "boostRecent")
        THEN (finalScore * 12) \div 10
        ELSE finalScore

\* calculatePostScore: 0.6 engagement + 0.3 recency + 0.1 diversity
\* + 0.0 impression, times 1.2 under boostRecent.  Unit 1/(10*ScoreScale).
calculatePostScore(post, userId, userPreferences, engagements, impressions, t) ==
    LET engagementScore == calculateEngagementScore(post)
        recencyScore == calculateRecencyScore(post, t)
        diversityScore == calculateDiversityScore(post, userId, engagements)
        impressionScore == calculateImpressionScore(post, userId, impressions)
        finalScore == (engagementScore * 6) + (recencyScore * 3)
                        + (diversityScore * 1) + (impressionScore * 0)
    IN  IF Truthy(userPreferences, "boostRecent")
        THEN (finalScore * 12) \div 10
        ELSE finalScore

\* calculateTrendScore: (likes / max(1, impressionCount || 1)) exp(-age / 6)
calculateTrendScore(post, t) ==
    LET impressionsOr1 == IF post.impressionCount = 0 THEN 1 ELSE post.impressionCount
    IN  (post.engagementCount.likes * ExpNeg(AgeAt(post.createdAt, t), 6))
            \div Max(1, impressionsOr1)

\* allPosts.map(post => ({...post, <field>: <score>}))
WithScore(post, field, value) == Spread(post, [x \in {field} |-> value])

\* ------------------------------------------------------- feed and rankings
\* The falsy userId: null, undefined or the empty string.
NoUser == ""

\* cacheKey = `feed_${userId}`
CacheKey(userId) == <<"feed_", userId>>

\* Mutants of the cache test: the comparison turned around; the age ignored.
CacheFreshInverted(cache, userId, t) ==
    /\ MapHas(cache, CacheKey(userId))
    /\ t - cache[CacheKey(userId)].timestamp > impressionCacheTTL

CacheFreshForever(cache, userId, t) == MapHas(cache, CacheKey(userId))

\* generateFeed's cache test: an entry exists and is younger than the TTL.
CacheFresh(cache, userId, t) ==
    /\ MapHas(cache, CacheKey(userId))
    /\ t - cache[CacheKey(userId)].timestamp < impressionCacheTTL

\* Mutant of the miss path: the ranking is not cut to maxFeedSize.
RankFeedUncut(allPosts, userId, userPreferences, engagements, impressions, t) ==
    SortDesc([i \in 1..Len(allPosts) |->
                 WithScore(allPosts[i], "score",
                     calculatePostScore(allPosts[i], userId, userPreferences,
                                        engagements, impressions, t))], "score")

\* Mutant of the miss path: the collection is cut to maxFeedSize before it
\* is sorted.
RankFeedCutsFirst(allPosts, userId, userPreferences, engagements, impressions, t) ==
    SortDesc([i \in 1..Min(Len(allPosts), maxFeedSize) |->
                 WithScore(allPosts[i], "score",
                     calculatePostScore(allPosts[i], userId, userPreferences,
                                        engagements, impressions, t))], "score")

\* generateFeed's miss path: score every post, sort by score, keep the
\* first maxFeedSize.
RankFeed(allPosts, userId, userPreferences, engagements, impressions, t) ==
    LET scoredPosts ==
            [i \in 1..Len(allPosts) |->
                WithScore(allPosts[i], "score",
                    calculatePostScore(allPosts[i], userId, userPreferences,
                                       engagements, impressions, t))]
    IN  Slice0(SortDesc(scoredPosts, "score"), maxFeedSize)

\* Mutant of generateFeed: the cached list is ranked again on every call.
generateFeedRanksAgain(allPosts, userId, userPreferences, cache, engagements, impressions, t) ==
    LET rankedPosts ==
            RankFeed(allPosts, userId, userPreferences, engagements, impressions, t)
    IN  IF CacheFresh(cache, userId, t)
        THEN [feed |-> rankedPosts, cache |-> cache, scored |-> Len(allPosts)]
        ELSE [feed |-> rankedPosts,
              cache |-> MapSet(cache, CacheKey(userId),
                               [feed |-> rankedPosts, timestamp |-> t]),
              scored |-> Len(allPosts)]

\* Mutant of generateFeed: with no posts to rank, an expired entry's list is
\* returned instead of an empty one.
generateFeedStaleWhenEmpty(allPosts, userId, userPreferences, cache, engagements, impressions, t) ==
    LET rankedPosts ==
            RankFeed(allPosts, userId, userPreferences, engagements, impressions, t)
    IN  IF CacheFresh(cache, userId, t)
           \/ (MapHas(cache, CacheKey(userId)) /\ Len(allPosts) = 0)
        THEN [feed |-> cache[CacheKey(userId)].feed, cache |-> cache, scored |-> 0]
        ELSE [feed |-> rankedPosts,
              cache |-> MapSet(cache, CacheKey(userId),
                               [feed |-> rankedPosts, timestamp |-> t]),
              scored |-> Len(allPosts)]

\* generateFeed: the list returned, the cache afterwards and the number of
\* calculatePostScore calls made.
generateFeed(allPosts, userId, userPreferences, cache, engagements, impressions, t) ==
    IF CacheFresh(cache, userId, t)
    THEN [feed |-> cache[CacheKey(userId)].feed, cache |-> cache, scored |-> 0]
    ELSE LET rankedPosts ==
                 RankFeed(allPosts, userId, userPreferences, engagements, impressions, t)
         IN  [feed |-> rankedPosts,
              cache |-> MapSet(cache, CacheKey(userId),
                               [feed |-> rankedPosts, timestamp |-> t]),
              scored |-> Len(allPosts)]

\* Mutants of clearCache: the entry deleted under the bare userId instead of
\* the cache key; every call clearing the whole cache.
clearCacheBareKey(cache, userId) ==
    IF userId # NoUser THEN MapDelete(cache, <<userId>>) ELSE EmptyMap

clearCacheEverything(cache, userId) == EmptyMap

\* clearCache(userId = null): one entry for a truthy userId, else all.
clearCache(cache, userId) ==
    IF userId # NoUser THEN MapDelete(cache, CacheKey(userId)) ELSE EmptyMap

\* getTrendingPosts(allPosts, limit)
getTrendingPosts(allPosts, limit, t) ==
    LET scored ==
            [i \in 1..Len(allPosts) |->
                WithScore(allPosts[i], "trendScore", calculateTrendScore(allPosts[i], t))]
    IN  Slice0(SortDesc(scored, "trendScore"), limit)

\* Mutant of getRecommendedPosts: no fallback for a user without history.
getRecommendedPostsNoFallback(allPosts, userId, limit, engagements, impressions, t) ==
    LET firstLimit == Slice0(allPosts, limit)
        scored ==
            [i \in 1..Len(firstLimit) |->
                WithScore(firstLimit[i], "score",
                    calculatePostScore(firstLimit[i], userId, EmptyMap,
                                       engagements, impressions, t))]
    IN  SortDesc(scored, "score")

\* getRecommendedPosts(allPosts, userId, limit)
getRecommendedPosts(allPosts, userId, limit, engagements, impressions, t) ==
    LET userEngs == MapGetOr(engagements, userId, <<>>)
        engagedPostIds == {userEngs[i].postId : i \in 1..Len(userEngs)}
        engagedPosts == SelectSeq(allPosts, LAMBDA p : p.id \in engagedPostIds)
        recommended ==
            SelectSeq(allPosts, LAMBDA post :
                /\ post.id \notin engagedPostIds
                /\ (engagedPosts = <<>> \/ post.displayName # engagedPosts[1].displayName))
        firstLimit == Slice0(recommended, limit)
        scored ==
            [i \in 1..Len(firstLimit) |->
                WithScore(firstLimit[i], "score",
                    calculatePostScore(firstLimit[i], userId, EmptyMap,
                                       engagements, impressions, t))]
    IN  IF Len(userEngs) = 0
        THEN getTrendingPosts(allPosts, limit, t)
        ELSE SortDesc(scored, "score")

\* (total / impressions) > percent / 100, for the counts of a post: the
\* double quotient compared with 0.1, 0.05 or 0.02 decides as the exact
\* fractions do for counts below 2^53 / 100.
RateAbove(total, impressions, percent) == total * 100 > percent * impressions

\* Mutant of getPostPopularity: the thresholds are inclusive.
getPostPopularityInclusive(post) ==
    LET impressions == IF NumberOr0(post, "impressionCount") = 0 THEN 1
                       ELSE post.impressionCount
        counts == IF "engagementCount" \in DOMAIN post THEN post.engagementCount
                  ELSE EmptyMap
        total == NumberOr0(counts, "likes") + NumberOr0(counts, "reposts")
                     + NumberOr0(counts, "replies")
    IN  IF total * 100 >= 10 * impressions THEN "viral"
        ELSE IF total * 100 >= 5 * impressions THEN "trending"
        ELSE IF total * 100 >= 2 * impressions THEN "popular"
        ELSE "normal"

\* getPostPopularity(post)
getPostPopularity(post) ==
    LET impressions == IF NumberOr0(post, "impressionCount") = 0 THEN 1
                       ELSE post.impressionCount
        counts == IF "engagementCount" \in DOMAIN post THEN post.engagementCount
                  ELSE EmptyMap
        likes == NumberOr0(counts, "likes")
        reposts == NumberOr0(counts, "reposts")
        replies == NumberOr0(counts, "replies")
    IN  IF RateAbove(likes + reposts + replies, impressions, 10) THEN "viral"
        ELSE IF RateAbove(likes + reposts + replies, impressions, 5) THEN "trending"
        ELSE IF RateAbove(likes + reposts + replies, impressions, 2) THEN "popular"
        ELSE "normal"

\* getStatistics(userId)
getStatistics(userId, engagements, impressions) ==
    LET userImps == MapGetOr(impressions, userId, <<>>)
        userEngs == MapGetOr(engagements, userId, <<>>)
        CountEng(type) == Len(SelectSeq(userEngs, LAMBDA e : e.type = type))
        CountDev(dev) == Len(SelectSeq(userImps, LAMBDA i : i.deviceType = dev))
        RECURSIVE SumDuration(_)
        SumDuration(n) ==
            IF n = 0 THEN 0 ELSE SumDuration(n - 1) + NumberOr0(userImps[n], "viewDuration")
    IN  [ totalImpressions |-> Len(userImps),
          totalEngagements |-> Len(userEngs),
          \* engagementRate and averageViewDuration as (numerator, denominator)
          engagementRate |-> <<Len(userEngs), Max(1, Len(userImps))>>,
          averageViewDuration |->
              IF Len(userImps) > 0 THEN <<SumDuration(Len(userImps)), Len(userImps)>>
              ELSE <<0, 1>>,
          engagementBreakdown |->
              [likes |-> CountEng("like"), reposts |-> CountEng("repost"),
               replies |-> CountEng("reply"), shares |-> CountEng("share")],
          deviceDistribution |->
              [mobile |-> CountDev("mobile"), tablet |-> CountDev("tablet"),
               desktop |-> CountDev("desktop")] ]

\* getDeviceType(): from window.innerWidth
getDeviceType(innerWidth) ==
    IF innerWidth < 768 THEN "mobile"
    ELSE IF innerWidth < 1024 THEN "tablet"
    ELSE "desktop"

\* Mutant of the impression: inViewport defaults to false.
buildImpressionViewportFalse(postId, userId, metadata, innerWidth, t) ==
    Spread([ postId |-> postId,
             userId |-> userId,
             timestamp |-> t,
             viewDuration |-> NumberOr0(metadata, "viewDuration"),
             scrollDepth |-> NumberOr0(metadata, "scrollDepth"),
             inViewport |-> Truthy(metadata, "inViewport"),
             deviceType |-> getDeviceType(innerWidth) ],
           metadata)

\* The impression object built by recordImpression
buildImpression(postId, userId, metadata, innerWidth, t) ==
    Spread([ postId |-> postId,
             userId |-> userId,
             timestamp |-> t,
             viewDuration |-> NumberOr0(metadata, "viewDuration"),
             scrollDepth |-> NumberOr0(metadata, "scrollDepth"),
             inViewport |-> ~("inViewport" \in DOMAIN metadata
                               /\ metadata["inViewport"] = FALSE),
             deviceType |-> getDeviceType(innerWidth) ],
           metadata)

\* The engagement object built by recordEngagement
buildEngagement(postId, userId, engagementType, metadata, t) ==
    Spread([ postId |-> postId,
             userId |-> userId,
             type |-> engagementType,
             timestamp |-> t ],
           metadata)

\* Mutant of the append: the record goes to the front of the list.
pushRecordAtFront(map, userId, record) ==
    MapSet(map, userId, <<record>> \o MapGetOr(map, userId, <<>>))

\* if (!map.has(userId)) map.set(userId, []); map.get(userId).push(record)
pushRecord(map, userId, record) ==
    MapSet(map, userId, Append(MapGetOr(map, userId, <<>>), record))

\* persistImpression / persistEngagement, from the moment fetch settles:
\* a response that is ok and parses fulfils the promise; a network error, a
\* non-ok status or an unparsable body is caught, logged and thrown again,
\* which rejects the promise.
persistSettles(response) ==
    IF response = "ok"
    THEN [state |-> "fulfilled", logged |-> 0]
    ELSE [state |-> "rejected", logged |-> 1]

\* Mutant: the persist call is made without a .catch.
catchPersistMissing(promise) ==
    IF promise.state = "rejected"
    THEN [unhandled |-> 1, logged |-> promise.logged]
    ELSE [unhandled |-> 0, logged |-> promise.logged]

\* .catch(err => console.error(...)) on the promise of the persist call:
\* a rejection is logged and handled.
catchPersist(promise) ==
    IF promise.state = "rejected"
    THEN [unhandled |-> 0, logged |-> promise.logged + 1]
    ELSE [unhandled |-> 0, logged |-> promise.logged]

\* ------------------------------------------------------------------- state
VARIABLES
    now,                 \* Date.now()
    userImpressions,     \* this.userImpressions: Map userId -> list
    userEngagements,     \* this.userEngagements: Map userId -> list
    feedCache,           \* this.feedCache: Map cacheKey -> {feed, timestamp}
    inflight,            \* persistence calls whose fetch has not settled
    consoleErrors,       \* number of console.error lines written
    unhandledRejections, \* promise rejections no handler took
    held,                \* per user, the caller's view of the array the last
                         \* generateFeed returned, while the cache holds it
    callerEdits,         \* number of caller edits of a returned array
    engagementCalls,     \* per user, the recordEngagement calls made so far:
                         \* how many, and how many with type argument 'like'
    ret,                 \* the last operation: its arguments and return value
    populated,           \* per user, the feed as the generateFeed call that
                         \* filled the user's cache entry returned it (empty
                         \* while the user has no entry)
    callerPosts,         \* an array of posts the caller holds and passes as
                         \* allPosts
    files,               \* the GitHub repository: path -> file (Contents API)
    requests,            \* the storage handler invocations, by number
    applied,             \* the invocations whose PUT was accepted, in order
    serverNow,           \* Date.now() of the functions' host
    proxies,             \* CONFIG.PROXIES of the proxy-config function
    requestCache,        \* its requestCache: key -> {data, timestamp, ttl}
    requestCounters,     \* its requestCounters: rate-limit key -> count
    metrics,             \* its metrics (the request count)
    proxyNow,            \* Date.now() of its host
    lastResponse,        \* the response to the last proxy-config request
    posted,              \* the bodies POSTed to it so far
    isActive,            \* BACKGROUND_STATE.isActive of the extension's worker
    toggles,             \* the isActive of each ACTIVATION_TOGGLED message
                         \* received, in order
    resumed,             \* how many handleActivationToggle calls have gone
                         \* on past their await
    storedIsActive,      \* proxyforce_isActive in chrome.storage.local
    monitoringInterval,  \* BACKGROUND_STATE.monitoringInterval
    timers,              \* the worker's intervals: the running ids and the
                         \* next id setInterval gives
    statsUpdates         \* STATS_UPDATE messages the intervals have sent

engineVars == <<now, userImpressions, userEngagements, feedCache, inflight,
                consoleErrors, unhandledRejections, held, callerEdits,
                engagementCalls, ret, populated, callerPosts>>
storeVars == <<files, requests, applied, serverNow>>
proxyVars == <<proxies, requestCache, requestCounters, metrics, proxyNow, lastResponse,
               posted>>
workerVars == <<isActive, toggles, resumed, storedIsActive, monitoringInterval, timers,
                statsUpdates>>
outsideEngine == <<storeVars, proxyVars, workerVars>>
outsideStore == <<engineVars, proxyVars, workerVars>>
outsideProxy == <<engineVars, storeVars, workerVars>>
outsideWorker == <<engineVars, storeVars, proxyVars>>

vars == <<engineVars, storeVars, proxyVars, workerVars>>

\* held[u]: no generateFeed yet; the returned array, which is the array of
\* the user's cache entry; or an array the cache has dropped (clearCache).
NoFeed == [kind |-> "none"]
Detached == [kind |-> "detached"]
Cached(feed) == [kind |-> "cached", feed |-> feed]
NoEntry == [kind |-> "none"]

Recorded ==
    LET RECURSIVE Total(_, _)
        Total(m, keys) ==
            IF keys = {} THEN 0
            ELSE LET k == CHOOSE x \in keys : TRUE
                 IN  Len(m[k]) + Total(m, keys \ {k})
    IN  Total(userImpressions, DOMAIN userImpressions)
          + Total(userEngagements, DOMAIN userEngagements)

\* Events so far: ticks, records, caller edits.
Events == ((now - StartTime) \div TickMs) + Recorded + callerEdits

\* -------------------------------------------------------- the file store
\* The handlers keep each collection as one JSON file of a GitHub
\* repository and reach it through the Contents API: GET returns the
\* content and its sha (the hash of the content, so equal contents have
\* equal shas), or 404; PUT replaces the content when the sha sent is the
\* sha of the stored content, creates the file when there is none and no
\* sha was sent, and is refused otherwise.
CommentsFile == "data/comments.json"
PostsFile == "posts.json"
QaFile == "data/qa.json"
FileNames == {CommentsFile, PostsFile, QaFile}

NoFile == [exists |-> FALSE, content |-> <<>>]
FileWith(content) == [exists |-> TRUE, content |-> content]

\* let sha = undefined; sha = meta.sha
NoSha == [given |-> FALSE, of |-> <<>>]
ShaOf(file) == [given |-> TRUE, of |-> file.content]

\* putRes.ok
StoreAcceptsAnySha(file, sha) == TRUE
StoreAccepts(file, sha) ==
    IF file.exists THEN sha.given /\ sha.of = file.content
    ELSE ~sha.given

\* A string of the request body: what it says and its .length.
Text(value, length) == [value |-> value, length |-> length]
NoText == Text("", 0)

\* `prefix_${Date.now()}`
IdOf(prefix, t) == <<prefix, t>>
NoId == <<>>

\* comments.slice(0, 1000) after unshift (create-comment.js:98-101,
\* create-post.js:104-107)
maxStored == 1000
Keep(list, n) == IF Len(list) > n THEN SubSeq(list, 1, n) ELSE list

\* qaList.find((q) => q.id === qaId): the index of the first match, 0 if none
RECURSIVE FindFrom(_, _, _)
FindFrom(list, id, i) ==
    IF i > Len(list) THEN 0
    ELSE IF list[i].id = id THEN i
    ELSE FindFrom(list, id, i + 1)

Find(list, id) == FindFrom(list, id, 1)

\* The changes the handlers make to the decoded content before the PUT.
\* create-comment: comments.unshift(commentData), then the cut
createCommentChange(comments, commentData) ==
    Keep(<<commentData>> \o comments, maxStored)

\* create-post: posts.unshift(newPost), then the cut
createPostChange(posts, newPost) ==
    Keep(<<newPost>> \o posts, maxStored)

\* create Q&A: qaList.unshift(qaData)
createQaChange(qaList, qaData) == <<qaData>> \o qaList

\* add-qa-answer: qa.answers.push(answerObj) on the question found
addQaAnswerChange(qaList, qaId, answerObj) ==
    [qaList EXCEPT ![Find(qaList, qaId)].answers = Append(@, answerObj)]

\* set-best-answer: qa.bestAnswerId = answerId on the question found
setBestAnswerChange(qaList, qaId, answerId) ==
    [qaList EXCEPT ![Find(qaList, qaId)].bestAnswerId = answerId]

\* What a handler has decided when its GET has returned: the response, if
\* it returns at once, or the PUT it goes on to send and the change the
\* PUT carries.
Respond(status) ==
    [status |-> status, put |-> FALSE, file |-> "", sha |-> NoSha,
     content |-> <<>>, change |-> [kind |-> "none"],
     created |-> 0, failed |-> 0]

SendPut(file, sha, content, change, created, failed) ==
    [status |-> 0, put |-> TRUE, file |-> file, sha |-> sha,
     content |-> content, change |-> change,
     created |-> created, failed |-> failed]

\* sha and decoded content after the GET of a handler that creates the file
\* when it is missing (getRes.ok / getRes.status === 404)
ReadOrEmpty(file) ==
    IF file.exists THEN [sha |-> ShaOf(file), list |-> file.content]
    ELSE [sha |-> NoSha, list |-> <<>>]

\* create-comment.js: exports.handler, up to the PUT
createComment(body, file, t) ==
    IF body.postId = "" \/ body.text.length = 0 THEN Respond(400)
    ELSE IF body.text.length > 500 THEN Respond(400)
    ELSE LET commentData ==
                 [id |-> IdOf("comment", t), postId |-> body.postId,
                  name |-> IF body.name = "" THEN "Anonymous" ELSE body.name,
                  text |-> body.text.value, helpful |-> 0]
             read == ReadOrEmpty(file)
         IN  SendPut(CommentsFile, read.sha,
                     createCommentChange(read.list, commentData),
                     [kind |-> "create-comment", item |-> commentData],
                     201, 502)

\* create-post.js: exports.handler (the first one), up to the PUT.  Of
\* validatePostData the checks of content and anonymousId are modelled; the
\* bodies carry no displayName, urls or images, and no spam.  suffix is
\* Math.random().toString(36).substring(7).
createPost(body, file, t, suffix) ==
    IF body.content.length < 1 \/ body.content.length > 2000 THEN Respond(400)
    ELSE IF body.anonymousId = "" THEN Respond(400)
    ELSE LET newPost ==
                 [id |-> IdOf("post", t) \o <<suffix>>,
                  anonymousId |-> body.anonymousId,
                  content |-> body.content.value, views |-> 0]
             read == ReadOrEmpty(file)
         IN  SendPut(PostsFile, read.sha,
                     createPostChange(read.list, newPost),
                     [kind |-> "create-post", item |-> newPost],
                     201, 500)

\* update-youtube-room.js: the second exports.handler (create Q&A), up to
\* the PUT
createQa(body, file, t) ==
    IF body.question.length = 0 \/ body.category = "" THEN Respond(400)
    ELSE IF body.question.length > 500 THEN Respond(400)
    ELSE LET qaData ==
                 [id |-> IdOf("qa", t), question |-> body.question.value,
                  askedBy |-> IF body.userName = "" THEN "Anonymous"
                              ELSE body.userName,
                  answers |-> <<>>, bestAnswerId |-> NoId]
             read == ReadOrEmpty(file)
         IN  SendPut(QaFile, read.sha, createQaChange(read.list, qaData),
                     [kind |-> "create-qa", item |-> qaData], 201, 502)

\* add-qa-answer.js: exports.handler, up to the PUT
addQaAnswer(body, file, t) ==
    IF body.qaId = NoId \/ body.answer.length = 0 THEN Respond(400)
    ELSE IF body.answer.length > 1000 THEN Respond(400)
    ELSE IF ~file.exists THEN Respond(404)
    ELSE IF Find(file.content, body.qaId) = 0 THEN Respond(404)
    ELSE LET answerObj ==
                 [id |-> IdOf("ans", t), answer |-> body.answer.value,
                  answeredBy |-> IF body.answeredBy = "" THEN "Anonymous"
                                 ELSE body.answeredBy,
                  helpful |-> 0]
         IN  SendPut(QaFile, ShaOf(file),
                     addQaAnswerChange(file.content, body.qaId, answerObj),
                     [kind |-> "add-qa-answer", qaId |-> body.qaId,
                      item |-> answerObj],
                     201, 502)

\* set-best-answer.js: exports.handler, up to the PUT
setBestAnswerByAnyone(body, file, t) ==
    IF body.qaId = NoId \/ body.answerId = NoId THEN Respond(400)
    ELSE IF ~file.exists THEN Respond(502)
    ELSE IF Find(file.content, body.qaId) = 0 THEN Respond(404)
    ELSE LET qa == file.content[Find(file.content, body.qaId)]
         IN  IF Find(qa.answers, body.answerId) = 0 THEN Respond(404)
             ELSE SendPut(QaFile, ShaOf(file),
                          setBestAnswerChange(file.content, body.qaId,
                                              body.answerId),
                          [kind |-> "set-best-answer", qaId |-> body.qaId,
                           item |-> body.answerId, userName |-> body.userName],
                          200, 502)
setBestAnswer(body, file, t) ==
    IF body.qaId = NoId \/ body.answerId = NoId THEN Respond(400)
    ELSE IF ~file.exists THEN Respond(502)
    ELSE IF Find(file.content, body.qaId) = 0 THEN Respond(404)
    ELSE LET qa == file.content[Find(file.content, body.qaId)]
         IN  IF qa.askedBy # body.userName THEN Respond(403)
             ELSE IF Find(qa.answers, body.answerId) = 0 THEN Respond(404)
             ELSE SendPut(QaFile, ShaOf(file),
                          setBestAnswerChange(file.content, body.qaId,
                                              body.answerId),
                          [kind |-> "set-best-answer", qaId |-> body.qaId,
                           item |-> body.answerId, userName |-> body.userName],
                          200, 502)

\* The invocations: not started, waiting for the PUT's response, returned.
Requests == 1..MaxEvents
NotStarted ==
    [pc |-> "new", handler |-> "", status |-> 0, sent |-> Respond(0), puts |-> 0,
     refused |-> FALSE]

\* The question the store holds at the start, asked by alice.
Question1 ==
    [id |-> IdOf("qa", StartTime - 1), question |-> "why", askedBy |-> "alice",
     answers |-> <<>>, bestAnswerId |-> NoId]

StoredAtStart ==
    [f \in FileNames |-> IF f = QaFile THEN FileWith(<<Question1>>) ELSE NoFile]

\* ------------------------------------------------- the proxy-config API
\* The function keeps its proxies (CONFIG.PROXIES), its response cache
\* (requestCache) and its rate counters (requestCounters) in the memory of
\* the process. Strings are strings here: template literals concatenate,
\* includes and the patterns look at the characters.
Undefined == "<undefined>"

\* `${v}` for a value that is a string or undefined.
ToStr(v) == IF v = Undefined THEN "undefined" ELSE v

CharAt(s, i) == SubSeq(s, i, i)
CharsOf(s) == {CharAt(s, i) : i \in 1..Len(s)}

\* String.prototype.includes.
Includes(s, part) ==
    \E i \in 1..(Len(s) - Len(part) + 1) : SubSeq(s, i, i + Len(part) - 1) = part

Uppercase == "ABCDEFGHIJKLMNOPQRSTUVWXYZ"
Lowercase == "abcdefghijklmnopqrstuvwxyz"

LowerChar(c) ==
    IF c \in CharsOf(Uppercase)
    THEN CharAt(Lowercase, CHOOSE i \in 1..Len(Uppercase) : CharAt(Uppercase, i) = c)
    ELSE c

\* String.prototype.toLowerCase, from character i on.
RECURSIVE toLowerCaseFrom(_, _)
toLowerCaseFrom(s, i) ==
    IF i > Len(s) THEN "" ELSE LowerChar(CharAt(s, i)) \o toLowerCaseFrom(s, i + 1)

\* s.replace(/\s+/g, '-'): every run of whitespace (here blanks and tabs)
\* becomes one hyphen.
RECURSIVE replaceSpacesFrom(_, _)
replaceSpacesFrom(s, i) ==
    IF i > Len(s) THEN ""
    ELSE IF CharAt(s, i) \notin {" ", "\t"}
         THEN CharAt(s, i) \o replaceSpacesFrom(s, i + 1)
         ELSE IF i > 1 /\ CharAt(s, i - 1) \in {" ", "\t"}
              THEN replaceSpacesFrom(s, i + 1)
              ELSE "-" \o replaceSpacesFrom(s, i + 1)

\* const proxyId = name.toLowerCase().replace(/\s+/g, '-')
proxyIdOf(name) == replaceSpacesFrom(toLowerCaseFrom(name, 1), 1)

CACHE_TTL == [PROXY_CONFIG |-> 3600, PROXY_LIST |-> 1800]
RATE_LIMITS == [default |-> [requests |-> 1000, window |-> 3600]]
ALLOWED_ORIGINS ==
    <<"https://proxyforce.io", "https://www.proxyforce.io", "chrome-extension://*",
      "http://localhost:3000">>

\* A JSON value with its typeof.
Str(s) == [typeof |-> "string", value |-> s]
Num(n) == [typeof |-> "number", value |-> n]

\* CONFIG.PROXY_SCHEMA. An absent constraint is 0, "" or {}, which the
\* validator's `propSchema.minLength && ...` tests skip.
Constraint(type, minLength, maxLength, pattern, enum, minimum, maximum) ==
    [type |-> type, minLength |-> minLength, maxLength |-> maxLength,
     pattern |-> pattern, enum |-> enum, minimum |-> minimum, maximum |-> maximum]

PROXY_SCHEMA ==
    [required |-> {"name", "host", "port", "protocol"},
     properties |->
        [name |-> Constraint("string", 3, 100, "", {}, 0, 0),
         host |-> Constraint("string", 0, 0, "host", {}, 0, 0),
         port |-> Constraint("integer", 0, 0, "", {}, 1, 65535),
         protocol |-> Constraint("string", 0, 0, "", {"http", "https", "socks5"}, 0, 0),
         region |-> Constraint("string", 2, 50, "", {}, 0, 0),
         country |-> Constraint("string", 0, 0, "country", {}, 0, 0),
         features |-> Constraint("array", 0, 0, "", {}, 0, 0)]]

\* new RegExp(pattern).test(value) for the two patterns of the schema:
\* '^[a-zA-Z0-9.-]+$|^\d{1,3}(\.\d{1,3}){3}$' (the second alternative
\* matches nothing the first does not) and '^[A-Z]{2}$'.
PatternTest(pattern, value) ==
    IF pattern = "host"
    THEN /\ Len(value) > 0
         /\ CharsOf(value) \subseteq
               (CharsOf(Lowercase) \cup CharsOf(Uppercase) \cup CharsOf("0123456789")
                   \cup {".", "-"})
    ELSE Len(value) = 2 /\ CharsOf(value) \subseteq CharsOf(Uppercase)

\* validateSchema: the fields that draw an error. typeof value is compared
\* with the schema's type name as it stands; the string and number tests
\* run by the schema's type.
validateSchema(data, schema) ==
    LET known == (DOMAIN data) \cap (DOMAIN schema.properties)
        prop(k) == schema.properties[k]
        missing == {f \in schema.required : f \notin DOMAIN data}
        wrongType == {k \in known : data[k].typeof # prop(k).type}
        isString(k) == prop(k).type = "string" /\ data[k].typeof = "string"
        tooShort == {k \in known : /\ isString(k)
                                   /\ prop(k).minLength # 0
                                   /\ Len(data[k].value) < prop(k).minLength}
        tooLong == {k \in known : /\ isString(k)
                                  /\ prop(k).maxLength # 0
                                  /\ Len(data[k].value) > prop(k).maxLength}
        noMatch == {k \in known : /\ isString(k)
                                  /\ prop(k).pattern # ""
                                  /\ ~PatternTest(prop(k).pattern, data[k].value)}
        notInEnum == {k \in known : /\ isString(k)
                                    /\ prop(k).enum # {}
                                    /\ data[k].value \notin prop(k).enum}
        isNumber(k) == prop(k).type = "integer" /\ data[k].typeof = "number"
        tooSmall == {k \in known : /\ isNumber(k)
                                   /\ prop(k).minimum # 0
                                   /\ data[k].value < prop(k).minimum}
        tooLarge == {k \in known : /\ isNumber(k)
                                   /\ prop(k).maximum # 0
                                   /\ data[k].value > prop(k).maximum}
        errors == missing \cup wrongType \cup tooShort \cup tooLong \cup noMatch
                      \cup notInEnum \cup tooSmall \cup tooLarge
    IN  [valid |-> errors = {}, errors |-> errors]

\* checkRateLimit for the key `${clientId}:${window index}`: the counters
\* after the call and whether the request is allowed.
checkRateLimit(counters, clientId, role, t) ==
    LET limits == RATE_LIMITS[role]
        key == <<clientId, t \div (limits.window * 1000)>>
        count == MapGetOr(counters, key, 0)
    IN  IF count >= limits.requests
        THEN [allowed |-> FALSE, counters |-> MapSet(counters, key, count)]
        ELSE [allowed |-> TRUE, counters |-> MapSet(counters, key, count + 1)]

\* validateCORS: an allowed origin ending in * is a prefix pattern.
validateCORS(origin) ==
    \E i \in 1..Len(ALLOWED_ORIGINS) :
        LET allowed == ALLOWED_ORIGINS[i]
        IN  IF CharAt(allowed, Len(allowed)) = "*"
            THEN /\ Len(origin) >= Len(allowed) - 1
                 /\ SubSeq(origin, 1, Len(allowed) - 1) = SubSeq(allowed, 1, Len(allowed) - 1)
            ELSE allowed = origin

\* getCacheKey(method, proxyKey, params): params is Object.entries(params)
\* as a sequence of <<key, value>>. Every caller passes no parameter or
\* one, which the sort by key leaves in place.
RECURSIVE JoinParams(_, _)
JoinParams(entries, i) ==
    IF i > Len(entries) THEN ""
    ELSE (IF i > 1 THEN "&" ELSE "") \o entries[i][1] \o "=" \o ToStr(entries[i][2])
             \o JoinParams(entries, i + 1)

getCacheKey(method, proxyKey, params) ==
    method \o ":" \o proxyKey \o ":" \o JoinParams(params, 1)

\* getFromCache(key, ttl): the data, or null for a missing or an expired
\* entry, which it deletes.
Null == [success |-> FALSE]
getFromCache(cache, key, ttl, t) ==
    IF ~MapHas(cache, key) THEN [hit |-> FALSE, data |-> Null, cache |-> cache]
    ELSE IF t - cache[key].timestamp > ttl * 1000
         THEN [hit |-> FALSE, data |-> Null, cache |-> MapDelete(cache, key)]
         ELSE [hit |-> TRUE, data |-> cache[key].data, cache |-> cache]

\* setCache(key, data, ttl), with its sweep of expired entries once the
\* map holds more than 10000.
setCache(cache, key, data, ttl, t) ==
    LET set == MapSet(cache, key, [data |-> data, timestamp |-> t, ttl |-> ttl])
    IN  IF Cardinality(DOMAIN set) > 10000
        THEN [k \in {x \in DOMAIN set : ~(t - set[x].timestamp > set[x].ttl * 1000)}
                 |-> set[k]]
        ELSE set

\* Coordinates in 1/10000 degree: the geo of the proxy `secure` and the
\* geo a created proxy gets.
Berlin == [lat |-> 525200, lng |-> 134050]
NullIsland == [lat |-> 0, lng |-> 0]

\* The clientGeo query parameter of a client in Berlin, and JSON.parse of it.
BerlinJson == "{\"lat\":52.52,\"lng\":13.405}"
ParseGeo(text) == IF text = BerlinJson THEN Berlin ELSE NullIsland

\* calculateProxyScore: max(0, 100 - distance / 10) with the haversine
\* distance in km. Two equal points are 0 km apart; any two different
\* points among Berlin, NullIsland and the proxies' are more than 1000 km
\* apart.
calculateProxyScore(clientGeo, proxyGeo) == IF clientGeo = proxyGeo THEN 100 ELSE 0

\* CONFIG.PROXIES in the order of its keys.
Proxy(id, name, host, healthStatus, geo) ==
    [id |-> id, name |-> name, host |-> host, healthStatus |-> healthStatus,
     lastHealthCheck |-> StartTime, enabled |-> TRUE, geo |-> geo]

PROXIES ==
    <<Proxy("default", "Default Proxy", "127.0.0.1", "healthy",
            [lat |-> 315733, lng |-> 1305703]),
      Proxy("secure", "Secure Proxy", "proxy-sec.proxyforce.io", "healthy", Berlin),
      Proxy("performance", "Performance Proxy", "proxy-fast.proxyforce.io", "optimizing",
            [lat |-> 13521, lng |-> 1038198]),
      Proxy("premium", "Premium Proxy", "proxy-premium.proxyforce.io", "healthy",
            [lat |-> 407128, lng |-> 0 - 740060])>>

ProxyIndex(list, id) ==
    IF \E i \in 1..Len(list) : list[i].id = id
    THEN CHOOSE i \in 1..Len(list) : list[i].id = id
    ELSE 0

\* CONFIG.PROXIES[proxyId] = newProxy: an existing key keeps its place.
PutProxy(list, proxy) ==
    IF ProxyIndex(list, proxy.id) = 0 THEN Append(list, proxy)
    ELSE [list EXCEPT ![ProxyIndex(list, proxy.id)] = proxy]

\* response(statusCode, body, headers) and errorResponse(statusCode, code).
Response(op, statusCode, body, xCache) ==
    [op |-> op, status |-> statusCode, body |-> body, xCache |-> xCache]
ErrorBody(code) == [success |-> FALSE, code |-> code]

\* handleGetProxyConfig: the response, and the cache and the rate counters
\* after it.
handleGetProxyConfig(list, cache, counters, proxyKey, clientGeo, origin, t) ==
    LET rateLimit == checkRateLimit(counters, "unknown", "default", t)
        Out(resp, c) == [response |-> resp, cache |-> c, counters |-> rateLimit.counters]
        params == <<<<"clientGeo", clientGeo>>>>
        oneKey == getCacheKey("GET", proxyKey, params)
        one == getFromCache(cache, oneKey, CACHE_TTL.PROXY_CONFIG, t)
        oneData == [success |-> TRUE, proxyKey |-> proxyKey,
                    config |-> list[ProxyIndex(list, proxyKey)], timestamp |-> t]
        allKey == getCacheKey("GET", "all", params)
        all == getFromCache(cache, allKey, CACHE_TTL.PROXY_LIST, t)
        enabled == SelectSeq(list, LAMBDA p : p.enabled)
        scored(p) ==
            Spread(p, [key |-> p.id,
                       score |-> IF clientGeo # Undefined
                                 THEN calculateProxyScore(ParseGeo(clientGeo), p.geo)
                                 ELSE 0])
        listed == SortDesc([i \in 1..Len(enabled) |-> scored(enabled[i])], "score")
        allData == [success |-> TRUE, proxies |-> listed, count |-> Len(listed),
                    timestamp |-> t]
    IN  IF origin # Undefined /\ ~validateCORS(origin)
        THEN [response |-> Response("GET", 403, ErrorBody("CORS_ERROR"), ""),
              cache |-> cache, counters |-> counters]
        ELSE IF ~rateLimit.allowed
        THEN Out(Response("GET", 429, ErrorBody("RATE_LIMIT_EXCEEDED"), ""), cache)
        ELSE IF proxyKey # Undefined
        THEN IF one.hit THEN Out(Response("GET", 200, one.data, "HIT"), one.cache)
             ELSE IF ProxyIndex(list, proxyKey) = 0
             THEN Out(Response("GET", 404, ErrorBody("PROXY_NOT_FOUND"), ""), one.cache)
             ELSE Out(Response("GET", 200, oneData, "MISS"),
                      setCache(one.cache, oneKey, oneData, CACHE_TTL.PROXY_CONFIG, t))
        ELSE IF all.hit THEN Out(Response("GET", 200, all.data, "HIT"), all.cache)
        ELSE Out(Response("GET", 200, allData, "MISS"),
                 setCache(all.cache, allKey, allData, CACHE_TTL.PROXY_LIST, t))

\* The hosts a new proxy may not name.
blacklistedHosts == {"localhost", "127.0.0.1", "0.0.0.0", "metadata.google.internal"}

\* event.body: a text that JSON.parse takes, with the object it gives, or
\* one it throws on.
JsonBody(data) == [parses |-> TRUE, data |-> data]
NotJson == [parses |-> FALSE, data |-> EmptyMap]

\* handlePostProxyConfig: the response, and the proxies, the cache and the
\* rate counters after it. The handler's one await (notifyWebhook, which
\* sends nothing) lets no other request in between.
handlePostProxyConfig(list, cache, counters, body, update, health, t) ==
    LET data == body.data
        validation == validateSchema(data, PROXY_SCHEMA)
        rateLimit == checkRateLimit(counters, "unknown", "default", t)
        proxyId == proxyIdOf(data.name.value)
        newProxy == [id |-> proxyId, name |-> data.name.value, host |-> data.host.value,
                     healthStatus |-> health, lastHealthCheck |-> t, enabled |-> TRUE,
                     geo |-> NullIsland]
        Out(resp, l, c, n) == [response |-> resp, proxies |-> l, cache |-> c, counters |-> n]
    IN  IF ~body.parses
        THEN Out(Response("POST", 400, ErrorBody("INVALID_JSON"), ""), list, cache, counters)
        ELSE IF ~validation.valid
        THEN Out(Response("POST", 400, ErrorBody("VALIDATION_ERROR"), ""), list, cache,
                 counters)
        ELSE IF \E h \in blacklistedHosts : Includes(data.host.value, h)
        THEN Out(Response("POST", 400, ErrorBody("INVALID_HOST"), ""), list, cache, counters)
        ELSE IF ~rateLimit.allowed
        THEN Out(Response("POST", 429, ErrorBody("RATE_LIMIT_EXCEEDED"), ""), list, cache,
                 rateLimit.counters)
        ELSE IF ProxyIndex(list, proxyId) # 0 /\ ~update
        THEN Out(Response("POST", 409, ErrorBody("PROXY_EXISTS"), ""), list, cache,
                 rateLimit.counters)
        ELSE Out(Response("POST", 201, [success |-> TRUE, proxy |-> newProxy], ""),
                 PutProxy(list, newProxy),
                 MapDelete(cache, getCacheKey("GET", "all", <<>>)),
                 rateLimit.counters)

\* The time the function's clock moves by: the time-to-live of a list.
ProxyTickMs == CACHE_TTL.PROXY_LIST * 1000

\* ------------------------------------------------ the background worker
\* The extension's service worker keeps BACKGROUND_STATE and the timers it
\* has set. A timer id is a positive number; NoInterval stands for the
\* monitoringInterval field before anything is assigned to it.
NoInterval == 0

\* The timers after setInterval, whose id is the next unused one.
Timers(running, nextId) == [running |-> running, nextId |-> nextId]
setInterval(ts) ==
    [id |-> ts.nextId,
     timers |-> Timers(ts.running \cup {ts.nextId}, ts.nextId + 1)]

\* clearInterval(id): a stopped or unknown id changes nothing.
clearInterval(ts, id) == Timers(ts.running \ {id}, ts.nextId)

\* startMonitoring(): BACKGROUND_STATE.monitoringInterval and the timers
\* after it.
startMonitoring(monitoring, ts) ==
    [monitoringInterval |-> setInterval(ts).id, timers |-> setInterval(ts).timers]

\* stopMonitoring()
stopMonitoring(monitoring, ts) ==
    [monitoringInterval |-> monitoring,
     timers |-> IF monitoring # NoInterval THEN clearInterval(ts, monitoring)
                ELSE ts]

Init ==
    /\ now = StartTime
    /\ userImpressions = EmptyMap
    /\ userEngagements = EmptyMap
    /\ feedCache = EmptyMap
    /\ inflight = {}
    /\ consoleErrors = 0
    /\ unhandledRejections = 0
    /\ held = [u \in Users |-> NoFeed]
    /\ callerEdits = 0
    /\ engagementCalls = [u \in Users |-> [total |-> 0, likes |-> 0]]
    /\ ret = [op |-> "new", userId |-> NoUser]
    /\ populated = [u \in Users |-> <<>>]
    /\ callerPosts = <<Post(3), Post(1), Post(4), Post(2)>>
    /\ files = StoredAtStart
    /\ requests = [r \in Requests |-> NotStarted]
    /\ applied = <<>>
    /\ serverNow = StartTime
    /\ proxies = PROXIES
    /\ requestCache = EmptyMap
    /\ requestCounters = EmptyMap
    /\ metrics = [totalRequests |-> 0]
    /\ proxyNow = StartTime
    /\ lastResponse = Spread(Response("new", 0, Null, ""), [proxyKey |-> Undefined])
    /\ posted = {}
    /\ isActive = FALSE
    /\ toggles = <<>>
    /\ resumed = 0
    /\ storedIsActive = FALSE
    /\ monitoringInterval = NoInterval
    /\ timers = Timers({}, 1)
    /\ statsUpdates = 0

\* ----------------------------------------------------------------- actions
\* Time passes.
Tick ==
    /\ Events < MaxEvents
    /\ now' = now + TickMs
    /\ ret' = [op |-> "tick", userId |-> NoUser]
    /\ UNCHANGED <<userImpressions, userEngagements, feedCache, inflight,
                   consoleErrors, unhandledRejections, held, callerEdits,
                   engagementCalls, populated, callerPosts, outsideEngine>>

\* Mutant of recordImpression: the impression joins the list only once its
\* persistence call has been awaited.
RecordImpressionAwaitsPersist(postId, userId, metadata, innerWidth) ==
    LET impression == buildImpression(postId, userId, metadata, innerWidth, now)
    IN  /\ Events < MaxEvents
        /\ inflight' = inflight \cup
               {[kind |-> "impression", userId |-> userId,
                 index |-> Len(MapGetOr(userImpressions, userId, <<>>)) + 1,
                 body |-> impression]}
        /\ ret' = [op |-> "recordImpression", userId |-> userId, postId |-> postId,
                   metadata |-> metadata, value |-> impression]
        /\ UNCHANGED <<now, userImpressions, userEngagements, feedCache,
                       consoleErrors, unhandledRejections, held, callerEdits,
                   engagementCalls, populated, callerPosts, outsideEngine>>

\* recordImpression(postId, userId, metadata)
RecordImpression(postId, userId, metadata, innerWidth) ==
    LET impression == buildImpression(postId, userId, metadata, innerWidth, now)
        map == pushRecord(userImpressions, userId, impression)
    IN  /\ Events < MaxEvents
        /\ userImpressions' = map
        /\ inflight' = inflight \cup
               {[kind |-> "impression", userId |-> userId,
                 index |-> Len(map[userId]), body |-> impression]}
        /\ ret' = [op |-> "recordImpression", userId |-> userId, postId |-> postId,
                   metadata |-> metadata, value |-> impression]
        /\ UNCHANGED <<now, userEngagements, feedCache, consoleErrors,
                       unhandledRejections, held, callerEdits,
                   engagementCalls, populated, callerPosts, outsideEngine>>

\* Mutant of recordEngagement: the user's cached feed is dropped as well.
RecordEngagementInvalidates(postId, userId, engagementType, metadata) ==
    LET engagement == buildEngagement(postId, userId, engagementType, metadata, now)
        map == pushRecord(userEngagements, userId, engagement)
    IN  /\ Events < MaxEvents
        /\ userEngagements' = map
        /\ feedCache' = MapDelete(feedCache, CacheKey(userId))
        /\ inflight' = inflight \cup
               {[kind |-> "engagement", userId |-> userId,
                 index |-> Len(map[userId]), body |-> engagement]}
        /\ engagementCalls' =
               [engagementCalls EXCEPT
                   ![userId].total = @ + 1,
                   ![userId].likes = @ + (IF engagementType = "like" THEN 1 ELSE 0)]
        /\ ret' = [op |-> "recordEngagement", userId |-> userId, postId |-> postId,
                   engagementType |-> engagementType, metadata |-> metadata,
                   value |-> engagement]
        /\ UNCHANGED <<now, userImpressions, consoleErrors,
                       unhandledRejections, held, callerEdits, populated, callerPosts, outsideEngine>>

\* recordEngagement(postId, userId, engagementType, metadata)
RecordEngagement(postId, userId, engagementType, metadata) ==
    LET engagement == buildEngagement(postId, userId, engagementType, metadata, now)
        map == pushRecord(userEngagements, userId, engagement)
    IN  /\ Events < MaxEvents
        /\ userEngagements' = map
        /\ inflight' = inflight \cup
               {[kind |-> "engagement", userId |-> userId,
                 index |-> Len(map[userId]), body |-> engagement]}
        /\ engagementCalls' =
               [engagementCalls EXCEPT
                   ![userId].total = @ + 1,
                   ![userId].likes = @ + (IF engagementType = "like" THEN 1 ELSE 0)]
        /\ ret' = [op |-> "recordEngagement", userId |-> userId, postId |-> postId,
                   engagementType |-> engagementType, metadata |-> metadata,
                   value |-> engagement]
        /\ UNCHANGED <<now, userImpressions, feedCache, consoleErrors,
                       unhandledRejections, held, callerEdits, populated, callerPosts, outsideEngine>>

\* The fetch of a persistence call settles with `response`; the promise
\* chain of persistImpression / persistEngagement and the .catch run.
PersistSettles(task, response) ==
    LET outcome == catchPersist(persistSettles(response))
    IN  /\ task \in inflight
        /\ inflight' = inflight \ {task}
        /\ consoleErrors' = consoleErrors + outcome.logged
        /\ unhandledRejections' = unhandledRejections + outcome.unhandled
        /\ ret' = [op |-> "persistSettled", userId |-> task.userId, task |-> task,
                   response |-> response]
        /\ UNCHANGED <<now, userImpressions, userEngagements, feedCache, held,
                       callerEdits,
                   engagementCalls, populated, callerPosts, outsideEngine>>

\* Mutant of generateFeed: the ranking is sorted into the caller's array.
GenerateFeedSortsAllPosts(allPosts, userId, userPreferences) ==
    LET r == generateFeed(allPosts, userId, userPreferences, feedCache,
                          userEngagements, userImpressions, now)
    IN  /\ feedCache' = r.cache
        /\ held' = [held EXCEPT ![userId] = Cached(r.feed)]
        /\ ret' = [op |-> "generateFeed", userId |-> userId, allPosts |-> allPosts,
                   userPreferences |-> userPreferences, value |-> r.feed,
                   scored |-> r.scored,
                   entryBefore |-> MapGetOr(feedCache, CacheKey(userId), NoEntry),
                   heldBefore |-> held[userId]]
        /\ populated' = IF CacheFresh(feedCache, userId, now) THEN populated
                        ELSE [populated EXCEPT ![userId] = r.feed]
        /\ callerPosts' = IF allPosts = callerPosts /\ r.scored > 0 THEN r.feed
                          ELSE callerPosts
        /\ UNCHANGED <<now, userImpressions, userEngagements, inflight,
                       consoleErrors, unhandledRejections, callerEdits,
                       engagementCalls, outsideEngine>>

\* generateFeed(allPosts, userId, userPreferences); the scored copies are
\* new objects in a new array (allPosts.map), which is what gets sorted.
GenerateFeed(allPosts, userId, userPreferences) ==
    LET r == generateFeed(allPosts, userId, userPreferences, feedCache,
                          userEngagements, userImpressions, now)
    IN  /\ feedCache' = r.cache
        /\ held' = [held EXCEPT ![userId] = Cached(r.feed)]
        /\ ret' = [op |-> "generateFeed", userId |-> userId, allPosts |-> allPosts,
                   userPreferences |-> userPreferences, value |-> r.feed,
                   scored |-> r.scored,
                   entryBefore |-> MapGetOr(feedCache, CacheKey(userId), NoEntry),
                   heldBefore |-> held[userId]]
        /\ populated' = IF CacheFresh(feedCache, userId, now) THEN populated
                        ELSE [populated EXCEPT ![userId] = r.feed]
        /\ UNCHANGED <<now, userImpressions, userEngagements, inflight,
                       consoleErrors, unhandledRejections, callerEdits,
                       engagementCalls, callerPosts, outsideEngine>>

\* clearCache(userId); userId = NoUser is the call without argument.
ClearCache(userId) ==
    LET cache == clearCache(feedCache, userId)
    IN  /\ feedCache' = cache
        /\ held' = [u \in Users |->
                       IF held[u] # NoFeed /\ ~MapHas(cache, CacheKey(u))
                       THEN Detached
                       ELSE held[u]]
        /\ ret' = [op |-> "clearCache", userId |-> userId,
                   cacheBefore |-> feedCache]
        /\ populated' = [u \in Users |->
                            IF MapHas(cache, CacheKey(u)) THEN populated[u] ELSE <<>>]
        /\ UNCHANGED <<now, userImpressions, userEngagements, inflight,
                       consoleErrors, unhandledRejections, callerEdits,
                       engagementCalls, callerPosts, outsideEngine>>

\* The caller removes the last element (Array.prototype.pop) of the array
\* the last generateFeed for userId returned.  On a miss that array is the
\* one stored in the cache entry, on a hit it is the entry's array itself
\* (popup.js:346, 362-367), so while the entry stands the edit shows in it.
CallerEditsFeed(userId) ==
    /\ Events < MaxEvents
    /\ held[userId].kind = "cached"
    /\ held[userId].feed # <<>>
    /\ LET popped == SubSeq(held[userId].feed, 1, Len(held[userId].feed) - 1)
       IN  /\ held' = [held EXCEPT ![userId] = Cached(popped)]
           /\ feedCache' = [feedCache EXCEPT ![CacheKey(userId)].feed = popped]
    /\ callerEdits' = callerEdits + 1
    /\ ret' = [op |-> "callerEdit", userId |-> userId]
    /\ UNCHANGED <<now, userImpressions, userEngagements, inflight,
                   consoleErrors, unhandledRejections,
                   engagementCalls, populated, callerPosts, outsideEngine>>

\* Mutant of getTrendingPosts: the list is also stored in the feed cache.
GetTrendingPostsCaches(allPosts, limit) ==
    /\ feedCache' = MapSet(feedCache, CacheKey("trending"),
                           [feed |-> getTrendingPosts(allPosts, limit, now),
                            timestamp |-> now])
    /\ ret' = [op |-> "getTrendingPosts", userId |-> NoUser, allPosts |-> allPosts,
               limit |-> limit, value |-> getTrendingPosts(allPosts, limit, now)]
    /\ UNCHANGED <<now, userImpressions, userEngagements, inflight,
                   consoleErrors, unhandledRejections, held, callerEdits,
                   engagementCalls, populated, callerPosts, outsideEngine>>

\* getTrendingPosts(allPosts, limit)
GetTrendingPosts(allPosts, limit) ==
    /\ ret' = [op |-> "getTrendingPosts", userId |-> NoUser, allPosts |-> allPosts,
               limit |-> limit, value |-> getTrendingPosts(allPosts, limit, now)]
    /\ UNCHANGED <<now, userImpressions, userEngagements, feedCache, inflight,
                   consoleErrors, unhandledRejections, held, callerEdits,
                   engagementCalls, populated, callerPosts, outsideEngine>>

\* getRecommendedPosts(allPosts, userId, limit)
GetRecommendedPosts(allPosts, userId, limit) ==
    /\ ret' = [op |-> "getRecommendedPosts", userId |-> userId,
               allPosts |-> allPosts, limit |-> limit,
               value |-> getRecommendedPosts(allPosts, userId, limit,
                                             userEngagements, userImpressions, now)]
    /\ UNCHANGED <<now, userImpressions, userEngagements, feedCache, inflight,
                   consoleErrors, unhandledRejections, held, callerEdits,
                   engagementCalls, populated, callerPosts, outsideEngine>>

\* getPostPopularity(post)
GetPostPopularity(post) ==
    /\ ret' = [op |-> "getPostPopularity", userId |-> NoUser, post |-> post,
               value |-> getPostPopularity(post)]
    /\ UNCHANGED <<now, userImpressions, userEngagements, feedCache, inflight,
                   consoleErrors, unhandledRejections, held, callerEdits,
                   engagementCalls, populated, callerPosts, outsideEngine>>

\* getStatistics(userId)
GetStatistics(userId) ==
    /\ ret' = [op |-> "getStatistics", userId |-> userId,
               value |-> getStatistics(userId, userEngagements, userImpressions)]
    /\ UNCHANGED <<now, userImpressions, userEngagements, feedCache, inflight,
                   consoleErrors, unhandledRejections, held, callerEdits,
                   engagementCalls, populated, callerPosts, outsideEngine>>

\* Array.prototype.sort of the caller's array by a key the comparator
\* computes: the array itself is reordered.
WithKey(post, key) == Spread(post, [sortKey |-> key])
WithoutKey(post) == [k \in (DOMAIN post) \ {"sortKey"} |-> post[k]]
StripKeys(s) == [i \in 1..Len(s) |-> WithoutKey(s[i])]

sortByEngagementScore(posts) ==
    StripKeys(SortDesc([i \in 1..Len(posts) |->
                           WithKey(posts[i], calculateEngagementScore(posts[i]))],
                       "sortKey"))

\* by new Date(createdAt).getTime(): a stable sort by the time of day
\* followed by a stable sort by the day
sortByCreatedAt(posts) ==
    LET byMs == SortDesc([i \in 1..Len(posts) |->
                             WithKey(posts[i], posts[i].createdAt.ms)],
                         "sortKey")
        byDay == SortDesc([i \in 1..Len(byMs) |->
                              WithKey(byMs[i], byMs[i].createdAt.day)],
                          "sortKey")
    IN  StripKeys(byDay)

\* testAlgorithmVariant(allPosts, userId, variant) called with the caller's
\* array: the first two variants sort the array in place and return its
\* first maxFeedSize elements, the other two call generateFeed.
TestAlgorithmVariant(userId, variant) ==
    \/ /\ variant \in {"engagement_heavy", "recency_heavy"}
       /\ callerPosts' = IF variant = "engagement_heavy"
                          THEN sortByEngagementScore(callerPosts)
                          ELSE sortByCreatedAt(callerPosts)
       /\ ret' = [op |-> "testAlgorithmVariant", userId |-> userId,
                  allPosts |-> callerPosts, variant |-> variant,
                  value |-> Slice0(callerPosts', maxFeedSize)]
       /\ UNCHANGED <<now, userImpressions, userEngagements, feedCache, inflight,
                      consoleErrors, unhandledRejections, held, callerEdits,
                      engagementCalls, populated, outsideEngine>>
    \/ /\ variant = "diversity_focus"
       /\ GenerateFeed(callerPosts, userId, [boostRecent |-> TRUE])
    \/ /\ variant \notin {"engagement_heavy", "recency_heavy", "diversity_focus"}
       /\ GenerateFeed(callerPosts, userId, EmptyMap)

\* -------------------------------------------------------- storage handlers
\* Invocation r runs its handler up to the await of the PUT: it parses and
\* checks the body, GETs the file and prepares the new content; `sent` is
\* what the handler has decided by then.  Invocations start in the order
\* of their numbers; dt is the time since the previous Date.now().
Start(r, handler, sent, dt) ==
    /\ requests[r].pc = "new"
    /\ IF r = 1 THEN TRUE ELSE requests[r - 1].pc # "new"
    /\ serverNow' = serverNow + dt
    /\ requests' =
           [requests EXCEPT ![r] =
               [pc |-> IF sent.put THEN "put" ELSE "done", handler |-> handler,
                status |-> sent.status, sent |-> sent, puts |-> 0,
                refused |-> FALSE]]
    /\ UNCHANGED <<files, applied, outsideStore>>

CreateComment(r, body, dt) ==
    Start(r, "create-comment",
          createComment(body, files[CommentsFile], serverNow + dt), dt)

CreatePost(r, body, dt, suffix) ==
    Start(r, "create-post",
          createPost(body, files[PostsFile], serverNow + dt, suffix), dt)

CreateQa(r, body, dt) ==
    Start(r, "create-qa", createQa(body, files[QaFile], serverNow + dt), dt)

AddQaAnswer(r, body, dt) ==
    Start(r, "add-qa-answer", addQaAnswer(body, files[QaFile], serverNow + dt), dt)

SetBestAnswer(r, body, dt) ==
    Start(r, "set-best-answer",
          setBestAnswer(body, files[QaFile], serverNow + dt), dt)

\* The PUT of invocation r reaches the store and the handler returns: the
\* success status when the store took the content, else the handler's error
\* status (if (!putRes.ok) return / throw); no handler sends a second PUT.
PutReturns(r) ==
    LET sent == requests[r].sent
        ok == StoreAccepts(files[sent.file], sent.sha)
    IN  /\ requests[r].pc = "put"
        /\ files' = IF ok THEN [files EXCEPT ![sent.file] = FileWith(sent.content)]
                    ELSE files
        /\ applied' = IF ok THEN Append(applied, r) ELSE applied
        /\ requests' =
               [requests EXCEPT
                   ![r].pc = "done",
                   ![r].status = IF ok THEN sent.created ELSE sent.failed,
                   ![r].puts = @ + 1,
                   ![r].refused = ~ok]
        /\ UNCHANGED <<serverNow, outsideStore>>

\* ------------------------------------------------------------------ inputs
NoMetadata == EmptyMap
NoPreferences == EmptyMap
BoostRecent == [boostRecent |-> TRUE]
Responses == {"ok", "http_error", "network_error", "bad_json"}

ListA == PostRange(1, 3)
ListB == PostRange(3, 4)
ListBig == PostRange(1, maxFeedSize + 1)
RecordedPost == Post(1).id

\* ------------------------------------------------ proxy-config handlers
\* Time passes on the function's host.
ProxyTick ==
    /\ proxyNow < StartTime + MaxEvents * ProxyTickMs
    /\ proxyNow' = proxyNow + ProxyTickMs
    /\ UNCHANGED <<proxies, requestCache, requestCounters, metrics, lastResponse, posted,
                   outsideProxy>>

\* GET /api/proxy-config[?proxyKey=..][&clientGeo=..] with or without an
\* Origin header, from a client that sends no address header.
HandleGetProxyConfig(proxyKey, clientGeo, origin) ==
    LET r == handleGetProxyConfig(proxies, requestCache, requestCounters, proxyKey,
                                  clientGeo, origin, proxyNow)
    IN  /\ metrics.totalRequests < MaxEvents
        /\ metrics' = [metrics EXCEPT !.totalRequests = @ + 1]
        /\ requestCache' = r.cache
        /\ requestCounters' = r.counters
        /\ lastResponse' = Spread(r.response, [proxyKey |-> proxyKey])
        /\ UNCHANGED <<proxies, proxyNow, posted, outsideProxy>>

\* POST /api/proxy-config with the body sent; health is what the first
\* health check of a created proxy draws.
HandlePostProxyConfig(body, update, health) ==
    LET r == handlePostProxyConfig(proxies, requestCache, requestCounters, body, update,
                                   health, proxyNow)
    IN  /\ metrics.totalRequests < MaxEvents
        /\ metrics' = [metrics EXCEPT !.totalRequests = @ + 1]
        /\ proxies' = r.proxies
        /\ requestCache' = r.cache
        /\ requestCounters' = r.counters
        /\ lastResponse' = Spread(r.response, [proxyKey |-> Undefined])
        /\ posted' = posted \cup {body}
        /\ UNCHANGED <<proxyNow, outsideProxy>>

\* ---------------------------------------------- background worker steps
\* An ACTIVATION_TOGGLED message arrives: the listener calls
\* handleActivationToggle, which sets isActive, asks the storage to save it
\* and waits; the listener answers the sender.
ActivationToggled(active) ==
    /\ Len(toggles) < MaxEvents
    /\ isActive' = active
    /\ toggles' = Append(toggles, active)
    /\ UNCHANGED <<resumed, storedIsActive, monitoringInterval, timers, statsUpdates,
                   outsideWorker>>

\* chrome.storage.local.set of the oldest waiting handleActivationToggle
\* settles and the handler goes on: it starts or stops the monitoring.
ToggleResumes ==
    LET active == toggles[resumed + 1]
        after == IF active THEN startMonitoring(monitoringInterval, timers)
                 ELSE stopMonitoring(monitoringInterval, timers)
    IN  /\ resumed < Len(toggles)
        /\ resumed' = resumed + 1
        /\ storedIsActive' = active
        /\ monitoringInterval' = after.monitoringInterval
        /\ timers' = after.timers
        /\ UNCHANGED <<isActive, toggles, statsUpdates, outsideWorker>>

\* A running interval fires: updatePopupStats() and logStats().
IntervalFires(id) ==
    /\ id \in timers.running
    /\ statsUpdates < MaxEvents
    /\ statsUpdates' = statsUpdates + 1
    /\ UNCHANGED <<isActive, toggles, resumed, storedIsActive, monitoringInterval, timers,
                   outsideWorker>>

\* The feed cache: feeds for two users (three inputs with two preference
\* settings for u1, one input for u2), an engagement of u1 that changes
\* u1's scores, an impression of u2, the clock, clearCache and the caller's
\* edits of returned lists.
FeedInputs ==
    {<<ListA, "u1", NoPreferences>>, <<ListA, "u1", BoostRecent>>,
     <<ListB, "u1", NoPreferences>>, <<ListB, "u2", NoPreferences>>}

Next ==
    \/ Tick
    \/ RecordImpression(RecordedPost, "u2", NoMetadata, 1280)
    \/ RecordEngagement(RecordedPost, "u1", "like", NoMetadata)
    \/ \E in \in FeedInputs : GenerateFeed(in[1], in[2], in[3])
    \/ \E u \in Users \cup {NoUser} : ClearCache(u)
    \/ \E u \in Users : CallerEditsFeed(u)

Spec == Init /\ [][Next]_vars

\* Recording and persistence: impressions of both users and engagements of
\* u1, the settling of their persistence calls with every outcome, and the
\* reads that see the lists.
NextEvents ==
    \/ Tick
    \/ \E u \in Users : RecordImpression(RecordedPost, u, NoMetadata, 1280)
    \/ \E ty \in {"like", "reply"} :
          RecordEngagement(RecordedPost, "u1", ty, NoMetadata)
    \/ \E task \in inflight, response \in Responses : PersistSettles(task, response)
    \/ \E u \in Users : GetStatistics(u)
    \/ GenerateFeed(ListA, "u1", NoPreferences)

SpecEvents == Init /\ [][NextEvents]_vars

\* A collection that is not in id order: authors a, b, b, c.
ListC == <<Post(3), Post(1), Post(4), Post(2)>>
RankLists == {ListA, ListC}

\* Trending and recommendations, next to a cached feed of u1.
NextRank ==
    \/ Tick
    \/ \E in \in {<<Post(1).id, "u1">>, <<Post(3).id, "u1">>, <<Post(1).id, "u2">>} :
          RecordEngagement(in[1], in[2], "like", NoMetadata)
    \/ \E ps \in RankLists, l \in {1, 10} : GetTrendingPosts(ps, l)
    \/ \E ps \in RankLists, u \in Users, l \in {1, 10} :
          GetRecommendedPosts(ps, u, l)
    \/ GenerateFeed(ListA, "u1", NoPreferences)

SpecRank == Init /\ [][NextRank]_vars

\* The size cap: post collections shorter than, as long as and longer than
\* maxFeedSize and the empty collection, for two users, with the clock and
\* clearCache.
ListFull == PostRange(1, maxFeedSize)

ListNone == PostRange(1, 0)

CapInputs ==
    {<<ListA, "u1", NoPreferences>>, <<ListBig, "u1", BoostRecent>>,
     <<ListFull, "u2", NoPreferences>>, <<ListNone, "u1", NoPreferences>>}

NextCap ==
    \/ Tick
    \/ \E in \in CapInputs : GenerateFeed(in[1], in[2], in[3])
    \/ \E u \in Users \cup {NoUser} : ClearCache(u)

SpecCap == Init /\ [][NextCap]_vars

\* The records: impressions with metadata that lacks some or all of the
\* optional fields, engagements of two users with and without metadata
\* (one metadata object has a field named type, the way the like was made),
\* and every read operation.
ImpressionMetadata ==
    {NoMetadata, [viewDuration |-> 1200], [scrollDepth |-> 1, inViewport |-> FALSE]}
GestureMetadata == [type |-> "double_tap"]

EngagementInputs ==
    {<<"u1", "like", NoMetadata>>, <<"u1", "like", GestureMetadata>>,
     <<"u1", "reply", NoMetadata>>, <<"u2", "like", NoMetadata>>}

NextRecords ==
    \/ Tick
    \/ \E md \in ImpressionMetadata : RecordImpression(RecordedPost, "u1", md, 1280)
    \/ \E in \in EngagementInputs : RecordEngagement(RecordedPost, in[1], in[2], in[3])
    \/ \E u \in Users : GetStatistics(u)
    \/ GenerateFeed(ListA, "u1", NoPreferences)
    \/ GetTrendingPosts(ListA, 1)
    \/ GetRecommendedPosts(ListA, "u1", 1)
    \/ ClearCache("u1")

SpecRecords == Init /\ [][NextRecords]_vars

\* Impressions and the ranking: impressions of two posts of ListA by u1 and
\* of one by u2, and feeds of u1 ranked with and without boostRecent.
NextImpressions ==
    \/ Tick
    \/ \E in \in {<<Post(1).id, "u1">>, <<Post(2).id, "u1">>, <<Post(1).id, "u2">>} :
          RecordImpression(in[1], in[2], NoMetadata, 1280)
    \/ \E prefs \in {NoPreferences, BoostRecent} : GenerateFeed(ListA, "u1", prefs)
    \/ ClearCache("u1")

SpecImpressions == Init /\ [][NextImpressions]_vars

\* Popularity: posts whose engagement rate lies below, on and above each of
\* the three thresholds, with and without impressions, classified in engine
\* states with and without records and a cached feed.
PopularityPosts ==
    {Spread(Post(1), [engagementCount |->
                          [likes |-> l, reposts |-> rp, replies |-> rl],
                      impressionCount |-> ic]) :
        l \in 0..2, rp \in 0..1, rl \in 0..1,
        ic \in {0, 1, 9, 10, 11, 19, 20, 21, 49, 50, 51, 100, 101}}

NextPopularity ==
    \/ Tick
    \/ RecordEngagement(RecordedPost, "u1", "like", NoMetadata)
    \/ GenerateFeed(ListA, "u1", NoPreferences)
    \/ \E post \in PopularityPosts : GetPostPopularity(post)

SpecPopularity == Init /\ [][NextPopularity]_vars

\* Old and new posts: four posts of one author with the same engagement
\* counts, created 50 days, 40 days, 48 hours and 0 hours before StartTime,
\* the oldest first.  (At 40 days and more the recency term is below half
\* a unit in the last place of the double sum 0.6 E + 0.3 R + 0.1 D, so
\* that the sum is the same double for both; the fixed-point sum agrees.)
HoursAgo(h) ==
    [day |-> ((StartTime \div MsPerHour) - h) \div 24,
     ms |-> (((StartTime \div MsPerHour) - h) % 24) * MsPerHour]

Aged(i, h) ==
    Spread(Post(i), [createdAt |-> HoursAgo(h),
                     engagementCount |-> Post(1).engagementCount])

ListAged == <<Aged(10, 50 * 24), Aged(7, 40 * 24), Aged(4, 48), Aged(1, 0)>>

NextRecency ==
    \/ Tick
    \/ RecordEngagement(RecordedPost, "u1", "like", NoMetadata)
    \/ \E u \in Users, prefs \in {NoPreferences, BoostRecent} :
          GenerateFeed(ListAged, u, prefs)
    \/ ClearCache("u1")

SpecRecency == Init /\ [][NextRecency]_vars

\* Posts of three eras: one created 800 days before StartTime (Math.exp
\* underflows from 745.13 days on), one created an hour after StartTime (a
\* server clock ahead of the client's, or a client clock set back), and
\* two created 0 and 48 hours before StartTime.
ListEras == <<Aged(16, 800 * 24), Aged(13, 0 - 1), Aged(1, 0), Aged(4, 48)>>

NextDecay ==
    \/ Tick
    \/ \E u \in Users, prefs \in {NoPreferences, BoostRecent} :
          GenerateFeed(ListEras, u, prefs)
    \/ \E u \in Users : ClearCache(u)

SpecDecay == Init /\ [][NextDecay]_vars

\* The caller's array: the three list operations and the A/B test called
\* with it, for a user with and without engagements.
Variants == {"control", "engagement_heavy", "recency_heavy", "diversity_focus"}

NextCaller ==
    \/ Tick
    \/ RecordEngagement(Post(3).id, "u1", "like", NoMetadata)
    \/ \E prefs \in {NoPreferences, BoostRecent} :
          GenerateFeed(callerPosts, "u1", prefs)
    \/ GetTrendingPosts(callerPosts, 2)
    \/ GetRecommendedPosts(callerPosts, "u1", 2)
    \/ \E variant \in Variants : TestAlgorithmVariant("u1", variant)
    \/ ClearCache("u1")

SpecCaller == Init /\ [][NextCaller]_vars

\* Request bodies.
CommentBodies ==
    {[postId |-> "p1", text |-> Text("nice", 4), name |-> ""],
     [postId |-> "p1", text |-> Text("long", 501), name |-> "bob"]}

PostBodies == {[anonymousId |-> "a", content |-> Text("hello", 5)]}

AnswerBodies ==
    {[qaId |-> Question1.id, answer |-> Text("because", 7), answeredBy |-> "bob"]}

\* Concurrent writers: comments (a file created by the first of them),
\* posts, and answers to the stored question; a millisecond can pass
\* between two invocations.
NextStore ==
    \/ \E r \in Requests, body \in CommentBodies, dt \in {0, 1} :
          CreateComment(r, body, dt)
    \/ \E r \in Requests, body \in PostBodies : CreatePost(r, body, 1, "k3x")
    \/ \E r \in Requests, body \in AnswerBodies : AddQaAnswer(r, body, 1)
    \/ \E r \in Requests : PutReturns(r)

SpecStore == Init /\ [][NextStore]_vars

\* The Q&A file: new questions (one without userName, one without
\* category), answers to the stored question, and requests of the asker
\* and of somebody else to mark an answer that may or may not be there.
QaBodies ==
    {[question |-> Text("how", 3), category |-> "general", userName |-> ""],
     [question |-> Text("how", 3), category |-> "", userName |-> "bob"]}

BestAnswerBodies ==
    {[qaId |-> Question1.id, answerId |-> IdOf("ans", StartTime + d), userName |-> who] :
        d \in {1, 2}, who \in {"alice", "bob"}}

NextQa ==
    \/ \E r \in Requests, body \in QaBodies : CreateQa(r, body, 1)
    \/ \E r \in Requests, body \in AnswerBodies, dt \in {0, 1} : AddQaAnswer(r, body, dt)
    \/ \E r \in Requests, body \in BestAnswerBodies : SetBestAnswer(r, body, 0)
    \/ \E r \in Requests : PutReturns(r)

SpecQa == Init /\ [][NextQa]_vars

\* --------------------------------------------------------------- proxies
\* The proxy-config function under requests for the list (for no place
\* and for a client in Berlin), for one proxy (a configured one and one a
\* client tries to create), from a foreign origin, and POSTs of a new
\* proxy: a body that meets the schema, one without a port, one that
\* names localhost and one that is no JSON.
NewProxyBody ==
    JsonBody([name |-> Str("Edge  One"), host |-> Str("px.example.io"),
              port |-> Num(8080), protocol |-> Str("https")])

ProxyBodies ==
    {NewProxyBody,
     JsonBody([name |-> Str("Edge  One"), host |-> Str("px.example.io"),
               protocol |-> Str("https")]),
     JsonBody([name |-> Str("Edge  One"), host |-> Str("localhost"),
               port |-> Num(8080), protocol |-> Str("https")]),
     NotJson}

GetEvents ==
    {[proxyKey |-> Undefined, clientGeo |-> Undefined, origin |-> Undefined],
     [proxyKey |-> Undefined, clientGeo |-> BerlinJson, origin |-> Undefined],
     [proxyKey |-> "default", clientGeo |-> Undefined, origin |-> Undefined],
     [proxyKey |-> proxyIdOf("Edge  One"), clientGeo |-> Undefined, origin |-> Undefined],
     [proxyKey |-> Undefined, clientGeo |-> Undefined, origin |-> "https://evil.example"],
     [proxyKey |-> Undefined, clientGeo |-> Undefined,
      origin |-> "chrome-extension://abcdef"]}

NextProxy ==
    \/ ProxyTick
    \/ \E e \in GetEvents : HandleGetProxyConfig(e.proxyKey, e.clientGeo, e.origin)
    \/ \E body \in ProxyBodies, health \in {"healthy", "degraded", "unhealthy"} :
          HandlePostProxyConfig(body, FALSE, health)

SpecProxy == Init /\ [][NextProxy]_vars

\* ---------------------------------------------------------------- worker
\* The background worker under activation messages of both kinds, the
\* storage settling and the intervals firing.
NextWorker ==
    \/ \E active \in BOOLEAN : ActivationToggled(active)
    \/ ToggleResumes
    \/ \E id \in 1..MaxEvents : IntervalFires(id)

SpecWorker == Init /\ [][NextWorker]_vars

\* ------------------------------------------------------------------ claims
\* What the last generateFeed call would return if it ranked its own
\* arguments now (generateFeed changes neither the lists nor the clock).
RankedNow ==
    RankFeed(ret.allPosts, ret.userId, ret.userPreferences,
             userEngagements, userImpressions, now)

\* The last generateFeed call found an entry for its user.
FoundEntry == ret.op = "generateFeed" /\ ret.entryBefore # NoEntry
EntryAge == now - ret.entryBefore.timestamp

\* C1: when generateFeed finds an entry for the user younger than the TTL,
\* it returns that entry's list as it is, scores no post and leaves the
\* entry in place, whatever allPosts and preferences it was called with.
C1_CacheHitReturnsCachedList ==
    (FoundEntry /\ EntryAge < impressionCacheTTL)
        => /\ ret.value = ret.entryBefore.feed
           /\ ret.scored = 0
           /\ feedCache[CacheKey(ret.userId)] = ret.entryBefore

\* A hit whose arguments, ranked now, would have given another list, after
\* time has passed since the entry was stored.
C1_Witness ==
    /\ FoundEntry
    /\ EntryAge < impressionCacheTTL
    /\ EntryAge > 0
    /\ ret.value # <<>>
    /\ ret.value # RankedNow

\* C2: when generateFeed finds an entry older than the TTL, it ranks the
\* allPosts of this call, returns that ranking and stores it as the user's
\* entry, stamped with the current time.
C2_ExpiredEntryIsRecomputed ==
    (FoundEntry /\ EntryAge > impressionCacheTTL)
        => /\ ret.value = RankedNow
           /\ ret.scored = Len(ret.allPosts)
           /\ feedCache[CacheKey(ret.userId)] = [feed |-> ret.value, timestamp |-> now]

\* An expired entry replaced by a different list.
C2_Witness ==
    /\ FoundEntry
    /\ EntryAge > impressionCacheTTL
    /\ ret.entryBefore.feed # <<>>
    /\ ret.value # ret.entryBefore.feed
    /\ feedCache[CacheKey(ret.userId)].timestamp = now

\* C3: a generateFeed call that follows an earlier call for the same user,
\* with no clearCache since and the entry still younger than the TTL, returns
\* the list the earlier call returned (the same array, as the caller holds it).
C3_RepeatedCallReturnsSameList ==
    (ret.op = "generateFeed" /\ ret.heldBefore.kind = "cached"
        /\ EntryAge < impressionCacheTTL)
        => ret.value = ret.heldBefore.feed

\* A second call with arguments that would rank differently.
C3_Witness ==
    /\ ret.op = "generateFeed"
    /\ ret.heldBefore.kind = "cached"
    /\ EntryAge < impressionCacheTTL
    /\ ret.value # <<>>
    /\ ret.value = ret.heldBefore.feed
    /\ RankedNow # ret.value

\* C4 as claimed: every generateFeed call returns at most maxFeedSize posts
\* when allPosts has more, and as many posts as allPosts when it has fewer.
C4_LengthFollowsInput ==
    ret.op = "generateFeed"
        => /\ (Len(ret.allPosts) > maxFeedSize => Len(ret.value) <= maxFeedSize)
           /\ (Len(ret.allPosts) < maxFeedSize => Len(ret.value) = Len(ret.allPosts))

\* C4, amended: a generateFeed call that finds no entry younger than the TTL
\* returns min(|allPosts|, maxFeedSize) posts; a call that finds one returns
\* the cached list, whose length does not depend on the allPosts of the call.
C4_MissLengthIsCapped ==
    ret.op = "generateFeed"
        => IF FoundEntry /\ EntryAge < impressionCacheTTL
           THEN Len(ret.value) = Len(ret.entryBefore.feed)
           ELSE Len(ret.value) = Min(Len(ret.allPosts), maxFeedSize)

\* A miss on a collection longer than maxFeedSize, cut to maxFeedSize.
C4_Witness ==
    /\ ret.op = "generateFeed"
    /\ ~(FoundEntry /\ EntryAge < impressionCacheTTL)
    /\ Len(ret.allPosts) > maxFeedSize
    /\ Len(ret.value) = maxFeedSize

\* C5: a generateFeed that directly follows clearCache(userId) for the same
\* user takes the miss path: it scores every post of its allPosts and
\* returns their ranking under the preferences of this call.
C5_ClearThenGenerateRecomputes ==
    [][(ret.op = "clearCache" /\ ret.userId \in Users
          /\ ret'.op = "generateFeed" /\ ret'.userId = ret.userId)
        => /\ ret'.scored = Len(ret'.allPosts)
           /\ ret'.value = RankFeed(ret'.allPosts, ret'.userId, ret'.userPreferences,
                                    userEngagements, userImpressions, now)
           /\ ret'.entryBefore = NoEntry]_vars

\* A feed recomputed for a user whose earlier feed clearCache had dropped,
\* under boostRecent.
C5_Witness ==
    /\ ret.op = "generateFeed"
    /\ ret.heldBefore = Detached
    /\ ret.entryBefore = NoEntry
    /\ ret.userPreferences = BoostRecent
    /\ ret.value # <<>>
    /\ ret.value = RankedNow

\* C6: clearCache(userId) with a userId removes that user's entry and leaves
\* every other entry as it was; clearCache() removes all entries.
C6_ClearCacheRemovesOnlyThatUser ==
    ret.op = "clearCache"
        => IF ret.userId \in Users
           THEN /\ ~MapHas(feedCache, CacheKey(ret.userId))
                /\ \A u \in Users \ {ret.userId} :
                      MapGetOr(feedCache, CacheKey(u), NoEntry)
                          = MapGetOr(ret.cacheBefore, CacheKey(u), NoEntry)
                /\ DOMAIN feedCache \subseteq DOMAIN ret.cacheBefore
           ELSE feedCache = EmptyMap

\* Both users had an entry, u1's was cleared, u2's stands.
C6_Witness ==
    /\ ret.op = "clearCache"
    /\ ret.userId = "u1"
    /\ MapHas(ret.cacheBefore, CacheKey("u1"))
    /\ MapHas(ret.cacheBefore, CacheKey("u2"))
    /\ MapHas(feedCache, CacheKey("u2"))

\* C7: a recordImpression or recordEngagement step leaves the feed cache as
\* it was, and a generateFeed for the same user right after it, within the
\* TTL, returns the cached list.
C7_RecordsLeaveCacheAlone ==
    [][/\ (ret'.op \in {"recordImpression", "recordEngagement"})
             => feedCache' = feedCache
       /\ (ret.op \in {"recordImpression", "recordEngagement"}
             /\ ret'.op = "generateFeed" /\ ret'.userId = ret.userId
             /\ CacheFresh(feedCache, ret.userId, now))
             => ret'.value = feedCache[CacheKey(ret.userId)].feed]_vars

\* A cached feed served after an engagement recorded since it was stored,
\* although the engagement changed the ranking.
C7_Witness ==
    /\ FoundEntry
    /\ EntryAge < impressionCacheTTL
    /\ ret.value = ret.entryBefore.feed
    /\ ret.value # RankedNow
    /\ MapHas(userEngagements, ret.userId)
    /\ \E i \in 1..Len(userEngagements[ret.userId]) :
          userEngagements[ret.userId][i].timestamp >= ret.entryBefore.timestamp

\* The list a persistence task's record was appended to.
ListOf(task) ==
    MapGetOr(IF task.kind = "impression" THEN userImpressions ELSE userEngagements,
             task.userId, <<>>)

InList(task) ==
    /\ task.index >= 1
    /\ task.index <= Len(ListOf(task))
    /\ ListOf(task)[task.index] = task.body

\* C8: when a persistence call fails (network error, non-ok status or an
\* unparsable answer), the failure is logged and handled inside the engine:
\* no rejection is left unhandled, and the record stays in the user's list
\* where recordImpression / recordEngagement appended it.
C8_PersistFailureIsSwallowed ==
    /\ unhandledRejections = 0
    /\ (ret.op = "persistSettled" /\ ret.response # "ok")
          => /\ InList(ret.task)
             /\ consoleErrors >= 2

\* A persistence call of an engagement failed with an HTTP error after a
\* later record had been appended.
C8_Witness ==
    /\ ret.op = "persistSettled"
    /\ ret.response = "http_error"
    /\ ret.task.kind = "engagement"
    /\ InList(ret.task)
    /\ consoleErrors = 2
    /\ unhandledRejections = 0

\* Persistence tasks in flight for a user's list of one kind.
InFlight(kind, userId) == {t \in inflight : t.kind = kind /\ t.userId = userId}

\* C9: the record is in the in-memory list while its persistence call is
\* still in flight: the record operation returns with the record appended
\* and the call pending, getStatistics counts every record whose call is
\* pending, and a generateFeed that ranks does so over the lists as they are.
C9_RecordSeenBeforePersistSettles ==
    /\ \A t \in inflight : InList(t)
    /\ ret.op \in {"recordImpression", "recordEngagement"}
          => \E t \in inflight :
                /\ t.userId = ret.userId
                /\ t.body = ret.value
                /\ t.index = Len(ListOf(t))
    /\ ret.op = "getStatistics"
          => /\ ret.value.totalImpressions
                   >= Cardinality(InFlight("impression", ret.userId))
             /\ ret.value.totalEngagements
                   >= Cardinality(InFlight("engagement", ret.userId))
             /\ ret.value.totalImpressions
                   = Len(MapGetOr(userImpressions, ret.userId, <<>>))
             /\ ret.value.totalEngagements
                   = Len(MapGetOr(userEngagements, ret.userId, <<>>))
    /\ (ret.op = "generateFeed" /\ ret.scored > 0) => ret.value = RankedNow

\* getStatistics counts two engagements whose persistence calls are both
\* still in flight.
C9_Witness ==
    /\ ret.op = "getStatistics"
    /\ Cardinality(InFlight("engagement", ret.userId)) = 2
    /\ ret.value.totalEngagements = 2
    /\ ret.value.engagementBreakdown.likes >= 1

\* The ids of a list of posts, in order.
Ids(posts) == [i \in 1..Len(posts) |-> posts[i].id]

\* C10: for a user with no recorded engagement, getRecommendedPosts(posts,
\* userId, limit) returns what getTrendingPosts(posts, limit) returns: the
\* same posts in the same order.
C10_ColdStartIsTrending ==
    (ret.op = "getRecommendedPosts"
        /\ Len(MapGetOr(userEngagements, ret.userId, <<>>)) = 0)
        => /\ ret.value = getTrendingPosts(ret.allPosts, ret.limit, now)
           /\ Len(ret.value) = Min(Len(ret.allPosts), ret.limit)
           /\ \A i \in 1..(Len(ret.value) - 1) :
                 ret.value[i].trendScore >= ret.value[i + 1].trendScore

\* A cold-start recommendation that is cut by the limit and reorders the
\* posts, for a user without engagements while the other user has some.
C10_Witness ==
    /\ ret.op = "getRecommendedPosts"
    /\ Len(MapGetOr(userEngagements, ret.userId, <<>>)) = 0
    /\ userEngagements # EmptyMap
    /\ Len(ret.value) = ret.limit
    /\ Len(ret.allPosts) > ret.limit
    /\ Ids(ret.value) # Ids(Slice0(ret.allPosts, ret.limit))
    /\ Ids(ret.value) = Ids(getTrendingPosts(ret.allPosts, ret.limit, now))

\* The engagements recorded for the user of the last operation.
EngagementsOfUser == MapGetOr(userEngagements, ret.userId, <<>>)
EngagedIds == {EngagementsOfUser[i].postId : i \in 1..Len(EngagementsOfUser)}
LastEngagedId == EngagementsOfUser[Len(EngagementsOfUser)].postId

\* The last operation was getRecommendedPosts for a user with engagements.
RecommendedWithHistory ==
    ret.op = "getRecommendedPosts" /\ Len(EngagementsOfUser) > 0

\* C11 as claimed: for a user with engagement history, no post returned by
\* getRecommendedPosts is one the user engaged with, and none has the author
\* of the post of the user's most recent engagement.
C11_ExcludesEngagedAndLastAuthor ==
    RecommendedWithHistory
        => \A i \in 1..Len(ret.value) :
              /\ ret.value[i].id \notin EngagedIds
              /\ \A j \in 1..Len(ret.allPosts) :
                    ret.allPosts[j].id = LastEngagedId
                        => ret.value[i].displayName # ret.allPosts[j].displayName

\* The candidates of the last getRecommendedPosts call, each with the score
\* calculatePostScore gives it now.
Candidates ==
    LET engagedPosts == SelectSeq(ret.allPosts, LAMBDA p : p.id \in EngagedIds)
        kept == SelectSeq(ret.allPosts, LAMBDA post :
                    /\ post.id \notin EngagedIds
                    /\ (engagedPosts = <<>>
                           \/ post.displayName # engagedPosts[1].displayName))
    IN  [i \in 1..Len(kept) |->
            WithScore(kept[i], "score",
                calculatePostScore(kept[i], ret.userId, EmptyMap,
                                   userEngagements, userImpressions, now))]

\* C12 as claimed: for a user with engagement history, getRecommendedPosts
\* returns the limit highest-scoring candidates in non-increasing score
\* order: min(limit, candidates) posts, and no candidate left out scores
\* strictly higher than a returned one.
C12_ReturnsTopScoredCandidates ==
    RecommendedWithHistory
        => /\ Len(ret.value) = Min(ret.limit, Len(Candidates))
           /\ \A i \in 1..(Len(ret.value) - 1) :
                 ret.value[i].score >= ret.value[i + 1].score
           /\ \A k \in 1..Len(Candidates) :
                 (\A i \in 1..Len(ret.value) : ret.value[i].id # Candidates[k].id)
                     => \A i \in 1..Len(ret.value) :
                           Candidates[k].score <= ret.value[i].score

\* The last generateFeed call took the miss path.
FeedMiss ==
    ret.op = "generateFeed" /\ ~(FoundEntry /\ EntryAge < impressionCacheTTL)

\* Every post of the last generateFeed call's allPosts with its score now.
ScoredNow ==
    [i \in 1..Len(ret.allPosts) |->
        WithScore(ret.allPosts[i], "score",
            calculatePostScore(ret.allPosts[i], ret.userId, ret.userPreferences,
                               userEngagements, userImpressions, now))]

\* C13: on a miss generateFeed scores every post of allPosts and returns
\* min(|allPosts|, maxFeedSize) of them, each once and with its score, in
\* non-increasing score order; no post left out scores higher than a
\* returned one; and the user's cache entry is the returned list stamped
\* with the current time.
C13_MissRanksAllAndCaches ==
    FeedMiss
        => LET scoredPosts == {ScoredNow[k] : k \in 1..Len(ret.allPosts)}
               returnedIds == {ret.value[i].id : i \in 1..Len(ret.value)}
               leftOut == {p \in scoredPosts : p.id \notin returnedIds}
           IN  /\ ret.scored = Len(ret.allPosts)
               /\ Len(ret.value) = Min(Len(ret.allPosts), maxFeedSize)
               /\ \A i \in 1..Len(ret.value) : ret.value[i] \in scoredPosts
               /\ Cardinality(returnedIds) = Len(ret.value)
               /\ \A i \in 1..(Len(ret.value) - 1) :
                     ret.value[i].score >= ret.value[i + 1].score
               /\ \A p \in leftOut : \A i \in 1..Len(ret.value) :
                     p.score <= ret.value[i].score
               /\ MapHas(feedCache, CacheKey(ret.userId))
               /\ feedCache[CacheKey(ret.userId)]
                     = [feed |-> ret.value, timestamp |-> now]

\* A miss on a collection longer than maxFeedSize, after the clock moved:
\* the post left out is not the last of allPosts and the returned order is
\* not the order of allPosts.
C13_Witness ==
    /\ FeedMiss
    /\ now > StartTime
    /\ Len(ret.allPosts) > maxFeedSize
    /\ Len(ret.value) = maxFeedSize
    /\ \E i \in 1..Len(ret.value) :
          ret.value[i].id = ret.allPosts[Len(ret.allPosts)].id
    /\ Ids(ret.value) # Ids(Slice0(ret.allPosts, maxFeedSize))
    /\ feedCache[CacheKey(ret.userId)].timestamp = now

\* C14 as claimed: getStatistics(u) reports as totalEngagements the number
\* of recordEngagement calls made for u, and as engagementBreakdown.likes
\* the number of those calls whose type argument was 'like'.
C14_StatisticsCountCalls ==
    ret.op = "getStatistics"
        => /\ ret.value.totalEngagements = engagementCalls[ret.userId].total
           /\ ret.value.engagementBreakdown.likes = engagementCalls[ret.userId].likes

\* s is an initial part of t.
IsPrefix(s, t) == Len(s) <= Len(t) /\ SubSeq(t, 1, Len(s)) = s

Extends(old, new, op, recordOp, userId) ==
    /\ \A u \in DOMAIN old : u \in DOMAIN new /\ IsPrefix(old[u], new[u])
    /\ \A u \in (DOMAIN new) \ (DOMAIN old) : op = recordOp /\ userId = u
    /\ op # recordOp => new = old
    /\ op = recordOp
          => /\ Len(new[userId]) = Len(MapGetOr(old, userId, <<>>)) + 1
             /\ \A u \in (DOMAIN new) \ {userId} : u \in DOMAIN old /\ new[u] = old[u]

\* C15: every step of the engine leaves each user's impression list and
\* engagement list an extension of what it was: earlier entries stay, in
\* their order and unchanged; only a record call adds an entry, one entry,
\* at the end of the list of its user; and a list comes into being only
\* by a record call for its user.
C15_ListsAreAppendOnly ==
    [][/\ Extends(userImpressions, userImpressions', ret'.op,
                  "recordImpression", ret'.userId)
       /\ Extends(userEngagements, userEngagements', ret'.op,
                  "recordEngagement", ret'.userId)]_vars

\* Lists of two entries and more, of two users, after a feed was generated
\* and the cache cleared.
C15_Witness ==
    /\ ret.op = "clearCache"
    /\ MapHas(userEngagements, "u1") /\ Len(userEngagements["u1"]) >= 2
    /\ MapHas(userEngagements, "u2")
    /\ held["u1"] = Detached

\* C16 as claimed: an impression recorded with metadata that lacks a field
\* has 0 for a lacking viewDuration or scrollDepth and false for a lacking
\* inViewport.
C16_AbsentFieldsDefaultToZeroAndFalse ==
    ret.op = "recordImpression"
        => /\ "viewDuration" \notin DOMAIN ret.metadata => ret.value.viewDuration = 0
           /\ "scrollDepth" \notin DOMAIN ret.metadata => ret.value.scrollDepth = 0
           /\ "inViewport" \notin DOMAIN ret.metadata => ret.value.inViewport = FALSE

\* C16, amended: a lacking viewDuration or scrollDepth is 0 and a lacking
\* inViewport is true, in the impression returned, which is the one
\* appended to the user's list.
C16_AbsentFieldsDefaultToZeroAndTrue ==
    ret.op = "recordImpression"
        => /\ "viewDuration" \notin DOMAIN ret.metadata => ret.value.viewDuration = 0
           /\ "scrollDepth" \notin DOMAIN ret.metadata => ret.value.scrollDepth = 0
           /\ "inViewport" \notin DOMAIN ret.metadata => ret.value.inViewport = TRUE
           /\ userImpressions[ret.userId][Len(userImpressions[ret.userId])] = ret.value

\* An impression recorded without metadata after one recorded with a view
\* duration.
C16_Witness ==
    /\ ret.op = "recordImpression"
    /\ ret.metadata = NoMetadata
    /\ ret.value.viewDuration = 0
    /\ ret.value.scrollDepth = 0
    /\ ret.value.inViewport = TRUE
    /\ Len(userImpressions[ret.userId]) = 2
    /\ userImpressions[ret.userId][1].viewDuration = 1200

\* C17 as claimed: generateFeed called with an empty post collection returns
\* an empty sequence.
C17_NoPostsGiveEmptyFeed ==
    (ret.op = "generateFeed" /\ Len(ret.allPosts) = 0) => Len(ret.value) = 0

\* C17, amended: generateFeed called with an empty post collection, when it
\* finds no entry younger than the TTL, returns an empty sequence and stores
\* it as the user's entry; when it finds one, it returns the cached list.
C17_NoPostsGiveEmptyFeedOnMiss ==
    (ret.op = "generateFeed" /\ Len(ret.allPosts) = 0)
        => IF FoundEntry /\ EntryAge < impressionCacheTTL
           THEN ret.value = ret.entryBefore.feed
           ELSE /\ ret.value = <<>>
                /\ ret.scored = 0
                /\ feedCache[CacheKey(ret.userId)] = [feed |-> <<>>, timestamp |-> now]

\* An empty feed returned in place of an expired entry that held posts.
C17_Witness ==
    /\ FeedMiss
    /\ Len(ret.allPosts) = 0
    /\ FoundEntry
    /\ Len(ret.entryBefore.feed) > 0
    /\ ret.value = <<>>
    /\ feedCache[CacheKey(ret.userId)].feed = <<>>

\* C18: the recorded impressions do not enter the score: for every user,
\* post and preference setting calculatePostScore gives what it gives in
\* the state that differs only by having no impressions, although the
\* impression term itself differs, and a generateFeed that ranks returns
\* the list it returns in that state.
C18_ImpressionsDoNotChangeScores ==
    /\ \A u \in Users, i \in 1..Len(ListA), prefs \in {NoPreferences, BoostRecent} :
          calculatePostScore(ListA[i], u, prefs, userEngagements, userImpressions, now)
              = calculatePostScore(ListA[i], u, prefs, userEngagements, EmptyMap, now)
    /\ (ret.op = "generateFeed" /\ ret.scored > 0)
          => ret.value = RankFeed(ret.allPosts, ret.userId, ret.userPreferences,
                                  userEngagements, EmptyMap, now)

\* A feed ranked for a user who has seen one of its posts twice, so that
\* the impression term of that post is below 1.
C18_Witness ==
    /\ ret.op = "generateFeed"
    /\ ret.scored > 0
    /\ MapHas(userImpressions, ret.userId)
    /\ Len(userImpressions[ret.userId]) >= 2
    /\ \E i \in 1..Len(ret.allPosts) :
          calculateImpressionScore(ret.allPosts[i], ret.userId, userImpressions)
              < (ScoreScale * 95) \div 100
    /\ ret.value = RankFeed(ret.allPosts, ret.userId, ret.userPreferences,
                            userEngagements, EmptyMap, now)

\* C19: a getTrendingPosts(allPosts, limit) step leaves the feed cache as it
\* was and returns min(limit, |allPosts|) posts of the allPosts it was
\* given, each once and with its trendScore, in non-increasing trendScore
\* order, no post left out scoring higher than a returned one, whatever
\* the cache holds.
C19_TrendingIsUncachedTopList ==
    [][ret'.op = "getTrendingPosts"
        => LET scoredPosts ==
                   {WithScore(ret'.allPosts[k], "trendScore",
                              calculateTrendScore(ret'.allPosts[k], now)) :
                        k \in 1..Len(ret'.allPosts)}
               value == ret'.value
               returnedIds == {value[i].id : i \in 1..Len(value)}
           IN  /\ feedCache' = feedCache
               /\ Len(value) = Min(ret'.limit, Len(ret'.allPosts))
               /\ \A i \in 1..Len(value) : value[i] \in scoredPosts
               /\ Cardinality(returnedIds) = Len(value)
               /\ \A i \in 1..(Len(value) - 1) :
                     value[i].trendScore >= value[i + 1].trendScore
               /\ \A p \in scoredPosts :
                     p.id \notin returnedIds
                         => \A i \in 1..Len(value) : p.trendScore <= value[i].trendScore]_vars

\* A trending list cut by the limit, of a collection other than the one
\* whose feed the cache holds, in another order than the collection's.
C19_Witness ==
    /\ ret.op = "getTrendingPosts"
    /\ MapHas(feedCache, CacheKey("u1"))
    /\ Len(feedCache[CacheKey("u1")].feed) > 0
    /\ ret.allPosts = ListC
    /\ Len(ret.value) = ret.limit
    /\ Ids(ret.value) # Ids(Slice0(ret.allPosts, ret.limit))
    /\ ret.value[1].trendScore > 0

\* The counts of the post of the last getPostPopularity call.
TotalOf(post) ==
    post.engagementCount.likes + post.engagementCount.reposts
        + post.engagementCount.replies
ShownOf(post) == Max(1, post.impressionCount)

\* C20: getPostPopularity(post), with rate = (likes + reposts + replies) /
\* max(1, impressionCount), answers viral when rate > 0.10, else trending
\* when rate > 0.05, else popular when rate > 0.02, else normal, in every
\* engine state, and the step changes no engine state.
C20_PopularityFollowsRate ==
    [][ret'.op = "getPostPopularity"
        => LET total == TotalOf(ret'.post)
               shown == ShownOf(ret'.post)
           IN  /\ ret'.value = "viral" <=> 10 * total > shown
               /\ ret'.value = "trending"
                     <=> (10 * total <= shown /\ 20 * total > shown)
               /\ ret'.value = "popular"
                     <=> (20 * total <= shown /\ 50 * total > shown)
               /\ ret'.value = "normal" <=> 50 * total <= shown
               /\ UNCHANGED <<now, userImpressions, userEngagements, feedCache,
                              inflight, consoleErrors, unhandledRejections, held,
                              callerEdits, engagementCalls>>]_vars

\* A post whose rate is exactly 0.10 is trending, not viral, asked of an
\* engine that holds an engagement and a cached feed.
C20_Witness ==
    /\ ret.op = "getPostPopularity"
    /\ 10 * TotalOf(ret.post) = ShownOf(ret.post)
    /\ ret.value = "trending"
    /\ userEngagements # EmptyMap
    /\ feedCache # EmptyMap

\* Post p was created after post q.
CreatedAfter(p, q) ==
    \/ p.createdAt.day > q.createdAt.day
    \/ (p.createdAt.day = q.createdAt.day /\ p.createdAt.ms > q.createdAt.ms)

\* C21 as claimed: in a feed ranked under the default weights, of two posts
\* with equal engagement score and equal diversity score for the user the
\* one created later has the strictly higher score, and so stands before
\* the other.
C21_NewerRanksStrictlyHigher ==
    (FeedMiss /\ ret.userPreferences = NoPreferences)
        => \A i, j \in 1..Len(ret.value) :
              (/\ calculateEngagementScore(ret.value[i])
                     = calculateEngagementScore(ret.value[j])
               /\ calculateDiversityScore(ret.value[i], ret.userId, userEngagements)
                     = calculateDiversityScore(ret.value[j], ret.userId, userEngagements)
               /\ CreatedAfter(ret.value[i], ret.value[j]))
                  => (ret.value[i].score > ret.value[j].score /\ i < j)

\* Posts i and j of the last ranking have equal engagement score and equal
\* diversity score for the user, and i was created after j.
SameButNewer(i, j) ==
    /\ calculateEngagementScore(ret.value[i]) = calculateEngagementScore(ret.value[j])
    /\ calculateDiversityScore(ret.value[i], ret.userId, userEngagements)
          = calculateDiversityScore(ret.value[j], ret.userId, userEngagements)
    /\ CreatedAfter(ret.value[i], ret.value[j])

\* Post p was created within the 72 hours before the time now.
CreatedLately(p) ==
    AgeAt(p.createdAt, now).hours >= 0 /\ AgeAt(p.createdAt, now).hours < 72

\* C21, amended: in a feed ranked under the default weights, of two posts
\* with equal engagement score and equal diversity score for the user the
\* one created later never has the lower score, and has the strictly higher
\* score and the earlier place when both were created within the 72 hours
\* before the call.
C21_NewerNeverLowerAndHigherWhenRecent ==
    (FeedMiss /\ ret.userPreferences = NoPreferences)
        => \A i, j \in 1..Len(ret.value) :
              SameButNewer(i, j)
                  => /\ ret.value[i].score >= ret.value[j].score
                     /\ (CreatedLately(ret.value[i]) /\ CreatedLately(ret.value[j]))
                            => (ret.value[i].score > ret.value[j].score /\ i < j)

\* A ranking holds a pair created lately, the newer strictly higher, and a
\* pair of old posts with the same score, the older one first.
C21_Witness ==
    /\ FeedMiss /\ ret.userPreferences = NoPreferences
    /\ \E i, j \in 1..Len(ret.value) :
          /\ SameButNewer(i, j)
          /\ CreatedLately(ret.value[i]) /\ CreatedLately(ret.value[j])
          /\ ret.value[i].score > ret.value[j].score
    /\ \E i, j \in 1..Len(ret.value) :
          /\ SameButNewer(i, j)
          /\ ret.value[i].score = ret.value[j].score
          /\ j < i

\* C22 as claimed: the recency score of every post ranked lies in (0, 1], is
\* 1 exactly for a post created at the time of the call, and is strictly
\* lower for the older of two posts.
C22_RecencyInUnitIntervalAndDecreasing ==
    FeedMiss
        => \A i \in 1..Len(ret.allPosts) :
              LET p == ret.allPosts[i]
                  r == calculateRecencyScore(p, now)
              IN  /\ r > 0
                  /\ r <= ScoreScale
                  /\ (r = ScoreScale) <=> (p.createdAt = DateOf(now))
                  /\ \A j \in 1..Len(ret.allPosts) :
                        CreatedAfter(p, ret.allPosts[j])
                            => r > calculateRecencyScore(ret.allPosts[j], now)

\* The change a handler's PUT carried, made to a content.
ApplyChange(content, change) ==
    CASE change.kind = "create-comment" -> createCommentChange(content, change.item)
      [] change.kind = "create-post" -> createPostChange(content, change.item)
      [] change.kind = "create-qa" -> createQaChange(content, change.item)
      [] change.kind = "add-qa-answer" ->
             addQaAnswerChange(content, change.qaId, change.item)
      [] change.kind = "set-best-answer" ->
             setBestAnswerChange(content, change.qaId, change.item)
      [] OTHER -> content

\* The content of file f after the changes of the invocations applied[i..]
\* have been made, one after another, to `content`.
RECURSIVE ReplayFrom(_, _, _)
ReplayFrom(content, f, i) ==
    IF i > Len(applied) THEN content
    ELSE LET sent == requests[applied[i]].sent
         IN  ReplayFrom(IF sent.file = f THEN ApplyChange(content, sent.change)
                        ELSE content,
                        f, i + 1)

Succeeded(r) == requests[r].pc = "done" /\ requests[r].status \in {200, 201}

ElementsOf(list) == {list[i] : i \in 1..Len(list)}

\* The stored file holds what invocation r added.
HoldsAdded(r) ==
    LET sent == requests[r].sent
        stored == files[sent.file].content
    IN  CASE sent.change.kind \in {"create-comment", "create-post", "create-qa"} ->
                 sent.change.item \in ElementsOf(stored)
          [] sent.change.kind = "add-qa-answer" ->
                 sent.change.item
                     \in ElementsOf(stored[Find(stored, sent.change.qaId)].answers)
          [] OTHER -> TRUE

C24_RecordCarriesArguments ==
    /\ ret.op \in {"recordImpression", "recordEngagement"}
          => /\ ret.value.postId = ret.postId
             /\ ret.value.userId = ret.userId
             /\ ret.value.timestamp = now
             /\ ret.op = "recordEngagement" => ret.value.type = ret.engagementType
    /\ \A u \in DOMAIN userImpressions :
          \A i \in 1..Len(userImpressions[u]) : userImpressions[u][i].userId = u
    /\ \A u \in DOMAIN userEngagements :
          \A i \in 1..Len(userEngagements[u]) : userEngagements[u][i].userId = u

\* C25 as claimed: a cache hit of generateFeed returns the list the call
\* that filled the entry returned, whatever the caller has done with that
\* list since.
C25_HitReturnsThePopulatedFeed ==
    (ret.op = "generateFeed" /\ ~FeedMiss) => ret.value = populated[ret.userId]

ListOperations == {"generateFeed", "getTrendingPosts", "getRecommendedPosts"}

\* C26: a call of generateFeed, getTrendingPosts or getRecommendedPosts with
\* the caller's array leaves the array as it was: the same posts in the
\* same order, none with a score field.
C26_ListOperationsLeaveAllPosts ==
    [][(ret'.op \in ListOperations /\ ret'.allPosts = callerPosts)
          => callerPosts' = callerPosts]_vars

\* A list operation has ranked the caller's array into another order and
\* returned scored copies, and the array stands as the caller made it.
C26_Witness ==
    /\ ret.op \in ListOperations
    /\ ret.allPosts = callerPosts
    /\ callerPosts = ListC
    /\ ret.value # <<>>
    /\ ret.value[1].id # callerPosts[1].id
    /\ \A i \in 1..Len(ret.value) :
          DOMAIN ret.value[i] # DOMAIN callerPosts[1]
    /\ \A i \in 1..Len(callerPosts) :
          "score" \notin DOMAIN callerPosts[i] /\ "trendScore" \notin DOMAIN callerPosts[i]

\* The stored Q&A list, and the place question i of it has in the list
\* after a step (create Q&A puts new questions in front).
QaList == files[QaFile].content
PlaceAfter(i) == i + (Len(files'[QaFile].content) - Len(QaList))

\* Invocation r returns in this step.
Returns(r) == requests[r].pc # "done" /\ requests'[r].pc = "done"

\* C28: every stored question's bestAnswerId is null or the id of one of its
\* answers; it changes only in a step in which a set-best-answer request of
\* the question's asker returns 200; and a step in which a request returns
\* 400, 403 or 404 leaves the stored files as they were.
C28_BestAnswerIsAnAnswerSetByAsker ==
    /\ [](\A i \in 1..Len(QaList) :
             \/ QaList[i].bestAnswerId = NoId
             \/ \E a \in 1..Len(QaList[i].answers) :
                   QaList[i].answers[a].id = QaList[i].bestAnswerId)
    /\ [][/\ \A i \in 1..Len(QaList) :
                files'[QaFile].content[PlaceAfter(i)].bestAnswerId
                      # QaList[i].bestAnswerId
                   => \E r \in Requests :
                         /\ Returns(r)
                         /\ requests'[r].status = 200
                         /\ requests[r].handler = "set-best-answer"
                         /\ requests[r].sent.change.userName = QaList[i].askedBy
          /\ \A r \in Requests :
                (Returns(r) /\ requests'[r].status \in {400, 403, 404})
                    => files' = files]_vars

\* The asker has marked an answer of the stored question, and somebody
\* else's request to mark one was turned down with 403.
C28_Witness ==
    /\ \E i \in 1..Len(QaList) : QaList[i].bestAnswerId # NoId
    /\ \E r \in Requests :
          requests[r].handler = "set-best-answer" /\ requests[r].status = 403

\* The keys of the proxies a list response holds.
ListedKeys(resp) == {resp.body.proxies[i].key : i \in 1..Len(resp.body.proxies)}

\* The step is a GET of the full list answered with 200.
ListReturned ==
    /\ metrics' # metrics
    /\ lastResponse'.op = "GET"
    /\ lastResponse'.proxyKey = Undefined
    /\ lastResponse'.status = 200

DeactivatedLast ==
    /\ toggles # <<>>
    /\ resumed = Len(toggles)
    /\ ~toggles[Len(toggles)]

\* C30: at most one monitoring interval is running at any time, and when
\* the last ACTIVATION_TOGGLED message handled had isActive == false no
\* interval started by startMonitoring is running.
C30_NoIntervalAfterDeactivation ==
    /\ Cardinality(timers.running) <= 1
    /\ DeactivatedLast => timers.running = {}

====
